---- MODULE Spec2Model ----
(***************************************************************************)
(* Model of the plan store (PhaseManager) and of the breakdown             *)
(* orchestrator (BreakdownSystem.run_loop) of claude_tools.                *)
(*                                                                         *)
(* A node id "1.2" is the sequence <<1, 2>>.  The plan directory is the    *)
(* function docs from file base names to documents; the aggregate          *)
(* document phases.json is the file whose base name is PhasesName.         *)
(***************************************************************************)
EXTENDS Integers, Sequences, FiniteSets, TLC

VARIABLES
    docs,       \* the plan directory: file base name -> document
    lastOp,     \* the last PhaseManager call made by the client and its answer
    prevDocs,   \* the plan directory as it was before that call
    opCount,    \* the number of calls that wrote to the plan directory
    max_workers,    \* BreakdownSystem.max_workers
    max_iterations, \* the argument of run_loop
    pc,         \* where the thread that runs run_loop is
    iteration,  \* run_loop's local iteration
    found,      \* phases_needing_breakdown of the current iteration
    batch,      \* phases_to_process of the current iteration
    wk,         \* worker slot -> the future submitted with that worker_id
    mreg,       \* the counter value the run_loop thread has loaded
    mflag,      \* the argument of the update_success the run_loop thread is in
    stats,      \* StatisticsTracker: total_items, successful_items, failed_items
    result,     \* how run_loop ended
    dispatched, \* history: how many futures have been submitted
    dispatched_ids, \* history: the node ids of the futures submitted
    batches,     \* history: how many batches have been submitted
    display,    \* the display thread of the WorkerMonitor
    mon_workers,    \* WorkerMonitor._workers: slot -> status text and state
    mon_lock,   \* who holds WorkerMonitor._lock
    calls,      \* thread -> the update_worker call it is in
    reader,     \* the thread that reads the registry (display or get_summary)
    disk,       \* a document read by load_json and its .backup file, as text
    load,       \* the load_json call in progress and what it has done
    max_tasks,  \* TaskExecutionSystem.max_tasks
    tpc,        \* where the thread that runs run_task_execution is
    units,      \* pipeline phase -> worker_id -> the unit submitted with it
    finished,   \* the worker ids of the current phase, in the order as_completed
                \* handed their futures over
    task_results,   \* _phase_2_task_execution's dict, in insertion order
    timers,     \* the worker ids that delayed_idle threads are sleeping on
    prompt_dir, \* prompt_tmp: the prompt files and what was written to them
    now,        \* the second datetime.now() is in
    task_result \* what run_task_execution returned

storeVars == <<docs, lastOp, prevDocs, opCount>>
monVars == <<mon_workers, mon_lock, calls, reader>>
repairVars == <<disk, load>>
taskVars == <<max_tasks, tpc, units, finished, task_results, timers, prompt_dir, now,
              task_result>>
loopVars == <<max_workers, max_iterations, pc, iteration, found, batch, wk, mreg,
              mflag, stats, result, dispatched, batches, display, monVars,
              repairVars, taskVars, dispatched_ids>>
vars == <<docs, lastOp, prevDocs, opCount, max_workers, max_iterations, pc,
          iteration, found, batch, wk, mreg, mflag, stats, result, dispatched,
          batches, display, mon_workers, mon_lock, calls, reader, disk, load,
          max_tasks, tpc, units, finished, task_results, timers, prompt_dir, now,
          task_result, dispatched_ids>>

\* how many writing calls a client makes in one run of the model
MaxOps == 2

----------------------------------------------------------------------------
(* Names, documents, entries *)

PhasesName == <<0>>

TopIds == {<<1>>, <<2>>, <<3>>}
ChildIds == {<<1, 1>>, <<1, 2>>}
NodeIds == TopIds \cup ChildIds
Names == NodeIds \cup {PhasesName}

\* an id no document of the store mentions as a node
GhostId == <<9>>

Status == {"pending", "in-progress", "completed"}
Absent == "absent"

NoDoc == [exists |-> FALSE, title |-> FALSE, status |-> Absent, phases |-> <<>>]

MkDoc(title, status, phases) ==
    [exists |-> TRUE, title |-> title, status |-> status, phases |-> phases]

MkEntry(id, status, duration, deps, priority) ==
    [id |-> id, status |-> status, duration |-> duration, deps |-> deps,
     priority |-> priority]

\* a duration is <<>> (absent), <<d>> (a single value) or <<a, b>> (a range "a-b")
NoDuration == <<>>
Single(d) == <<d>>
Range(a, b) == <<a, b>>

\* dict.get('status', 'pending')
StatusOr(s, default) == IF s = Absent THEN default ELSE s

Exists(d, name) == name \in DOMAIN d /\ d[name].exists

----------------------------------------------------------------------------
(* Helpers on sequences *)

Take(s, n) == SubSeq(s, 1, IF n < Len(s) THEN n ELSE Len(s))

\* position of the first entry of phases whose id is id, 0 when there is none
FirstIndex(phases, id) ==
    IF \E i \in DOMAIN phases : phases[i].id = id
    THEN CHOOSE i \in DOMAIN phases :
            /\ phases[i].id = id
            /\ \A j \in DOMAIN phases : phases[j].id = id => i <= j
    ELSE 0

----------------------------------------------------------------------------
(* PhaseManager: the read side *)

\* "a.json" < "b.json" as Python compares the two path strings ('.' < 'j', so
\* the file of a child sorts before the file of its parent)
RECURSIVE IdPathLess(_, _)
IdPathLess(a, b) ==
    IF a = <<>> THEN FALSE
    ELSE IF b = <<>> THEN TRUE
    ELSE IF Head(a) # Head(b) THEN Head(a) < Head(b)
    ELSE IdPathLess(Tail(a), Tail(b))

FileLess(a, b) ==
    IF a = PhasesName THEN FALSE
    ELSE IF b = PhasesName THEN TRUE
    ELSE IdPathLess(a, b)

RECURSIVE SortedNames(_)
SortedNames(S) ==
    IF S = {} THEN <<>>
    ELSE LET m == CHOOSE x \in S : \A y \in S \ {x} : FileLess(x, y)
         IN <<m>> \o SortedNames(S \ {m})

\* get_all_plan_files: every *.json of the directory except index.json, sorted
get_all_plan_files(d) == SortedNames({n \in DOMAIN d : d[n].exists})

\* get_priority_value
get_priority_value(priority) ==
    CASE priority = "high" -> 1
      [] priority = "medium" -> 2
      [] priority = "low" -> 3
      [] OTHER -> 999

\* a threshold test that also asks for a breakdown at 60 minutes
needs_breakdown_inclusive(duration) ==
    IF Len(duration) = 0 THEN FALSE
    ELSE IF Len(duration) = 2 THEN duration[1] >= 60 \/ duration[2] >= 60
    ELSE IF duration[1] = 0 THEN FALSE
    ELSE duration[1] >= 60

\* needs_breakdown
needs_breakdown(duration) ==
    IF Len(duration) = 0 THEN FALSE
    ELSE IF Len(duration) = 2 THEN duration[1] > 60 \/ duration[2] > 60
    ELSE IF duration[1] = 0 THEN FALSE
    ELSE duration[1] > 60

(* File names as text: a sequence of one-character strings, ".json" removed *)
Digits == {"0", "1", "2", "3", "4", "5", "6", "7", "8", "9"}
PhasesText == <<"p", "h", "a", "s", "e", "s">>

\* str.isdigit()
isdigit(name) == Len(name) > 0 /\ \A i \in DOMAIN name : name[i] \in Digits

\* int(name) > 0 for a name of digits
IsPositive(name) == \E i \in DOMAIN name : name[i] # "0"

\* str.startswith(prefix)
startswith(name, prefix) ==
    Len(name) >= Len(prefix) /\ SubSeq(name, 1, Len(prefix)) = prefix

\* len(name.split("."))
PartCount(name) == 1 + Cardinality({i \in DOMAIN name : name[i] = "."})

\* a leaf test that takes every file under the name for a child
is_leaf_phase_any_descendant(file_name, all_files) ==
    ~ \E other \in all_files :
        IF file_name = PhasesText THEN isdigit(other) /\ IsPositive(other)
        ELSE startswith(other, file_name \o <<".">>)

\* is_leaf_phase
is_leaf_phase(file_name, all_files) ==
    ~ \E other \in all_files :
        IF file_name = PhasesText THEN isdigit(other) /\ IsPositive(other)
        ELSE /\ startswith(other, file_name \o <<".">>)
             /\ PartCount(other) = PartCount(file_name) + 1

\* a lookup that asks phases.json first
get_phase_status_aggregate_first(d, id) ==
    IF Exists(d, PhasesName) /\ FirstIndex(d[PhasesName].phases, id) # 0
    THEN StatusOr(d[PhasesName].phases[FirstIndex(d[PhasesName].phases, id)].status,
                  "pending")
    ELSE IF Exists(d, id) THEN StatusOr(d[id].status, "pending")
    ELSE "unknown"

\* get_phase_status
get_phase_status(d, id) ==
    IF Exists(d, id) THEN StatusOr(d[id].status, "pending")
    ELSE IF Exists(d, PhasesName) /\ FirstIndex(d[PhasesName].phases, id) # 0
    THEN StatusOr(d[PhasesName].phases[FirstIndex(d[PhasesName].phases, id)].status,
                  "pending")
    ELSE "unknown"

\* a check that lets ids pass that no document knows
are_dependencies_completed_open(d, deps) ==
    \A i \in DOMAIN deps : get_phase_status(d, deps[i]) \in {"completed", "unknown"}

\* are_dependencies_completed
are_dependencies_completed(d, deps) ==
    \A i \in DOMAIN deps : get_phase_status(d, deps[i]) = "completed"

\* is_true_leaf_phase
is_true_leaf_phase(d, sub_phase) ==
    ~ (Exists(d, sub_phase.id) /\ d[sub_phase.id].phases # <<>>)

MkTask(e, parent) ==
    [id |-> e.id, priority |-> get_priority_value(e.priority), parent_id |-> parent,
     status |-> e.status, duration |-> e.duration, deps |-> e.deps]

\* the tasks one individual file contributes (first loop of get_workable_phases)
RECURSIVE SubPhaseTasks(_, _, _)
SubPhaseTasks(d, name, phases) ==
    IF phases = <<>> THEN <<>>
    ELSE LET e == Head(phases)
         IN (IF /\ is_true_leaf_phase(d, e)
                /\ are_dependencies_completed(d, e.deps)
                /\ e.status = "pending"
             THEN <<MkTask(e, name)>> ELSE <<>>)
            \o SubPhaseTasks(d, name, Tail(phases))

RECURSIVE FileTasks(_, _)
FileTasks(d, files) ==
    IF files = <<>> THEN <<>>
    ELSE (IF d[Head(files)].title
          THEN SubPhaseTasks(d, Head(files), d[Head(files)].phases)
          ELSE <<>>)
         \o FileTasks(d, Tail(files))

\* the tasks phases.json contributes (second loop of get_workable_phases)
RECURSIVE DirectTasks(_, _)
DirectTasks(d, phases) ==
    IF phases = <<>> THEN <<>>
    ELSE LET e == Head(phases)
         IN (IF are_dependencies_completed(d, e.deps) /\ e.status = "pending"
             THEN <<MkTask(e, <<>>)>> ELSE <<>>)
            \o DirectTasks(d, Tail(phases))

\* list.sort(key = priority): a stable sort
RECURSIVE InsertByPriority(_, _)
InsertByPriority(sorted, x) ==
    IF sorted = <<>> THEN <<x>>
    ELSE IF Head(sorted).priority <= x.priority
         THEN <<Head(sorted)>> \o InsertByPriority(Tail(sorted), x)
         ELSE <<x>> \o sorted

RECURSIVE SortByPriority(_, _)
SortByPriority(sorted, rest) ==
    IF rest = <<>> THEN sorted
    ELSE SortByPriority(InsertByPriority(sorted, Head(rest)), Tail(rest))

\* get_workable_phases
get_workable_phases(d) ==
    SortByPriority(<<>>,
        FileTasks(d, get_all_plan_files(d))
        \o (IF Exists(d, PhasesName) THEN DirectTasks(d, d[PhasesName].phases)
            ELSE <<>>))

\* a finder that forgets the check for an individual file
has_individual_file_unchecked(d, id) == FALSE

\* os.path.exists(individual_file) in find_phases_needing_breakdown
has_individual_file(d, id) == Exists(d, id)

MkNeedy(file, e) ==
    [file |-> file, phase_id |-> e.id, duration |-> e.duration,
     status |-> StatusOr(e.status, "pending")]

\* the entries of one phases list that are over the limit and have no file of
\* their own
RECURSIVE NeedyEntries(_, _, _)
NeedyEntries(d, file, phases) ==
    IF phases = <<>> THEN <<>>
    ELSE LET e == Head(phases)
         IN (IF needs_breakdown(e.duration) /\ ~ has_individual_file(d, e.id)
             THEN <<MkNeedy(file, e)>> ELSE <<>>)
            \o NeedyEntries(d, file, Tail(phases))

RECURSIVE NeedyOfFiles(_, _)
NeedyOfFiles(d, files) ==
    IF files = <<>> THEN <<>>
    ELSE NeedyEntries(d, Head(files), d[Head(files)].phases)
         \o NeedyOfFiles(d, Tail(files))

\* "Remove duplicates": the key is file:phase_id
RECURSIVE RemoveDuplicates(_, _)
RemoveDuplicates(seen, rest) ==
    IF rest = <<>> THEN <<>>
    ELSE LET key == <<Head(rest).file, Head(rest).phase_id>>
         IN IF key \in seen THEN RemoveDuplicates(seen, Tail(rest))
            ELSE <<Head(rest)>> \o RemoveDuplicates(seen \cup {key}, Tail(rest))

\* a sort step that leaves the list in the order it was collected
InsertUnsorted(sorted, x) == Append(sorted, x)

\* list.sort(key = int(duration), reverse = True): stable, largest first
RECURSIVE InsertByDuration(_, _)
InsertByDuration(sorted, x) ==
    IF sorted = <<>> THEN <<x>>
    ELSE IF Head(sorted).duration[1] >= x.duration[1]
         THEN <<Head(sorted)>> \o InsertByDuration(Tail(sorted), x)
         ELSE <<x>> \o sorted

RECURSIVE SortByDuration(_, _)
SortByDuration(sorted, rest) ==
    IF rest = <<>> THEN sorted
    ELSE SortByDuration(InsertByDuration(sorted, Head(rest)), Tail(rest))

\* the list find_phases_needing_breakdown sorts
unique_phases(d) ==
    RemoveDuplicates({},
        NeedyOfFiles(d, get_all_plan_files(d))
        \o (IF Exists(d, PhasesName)
            THEN NeedyEntries(d, PhasesName, d[PhasesName].phases) ELSE <<>>))

\* find_phases_needing_breakdown; int("a-b") raises ValueError in the sort key
find_phases_needing_breakdown(d, limit) ==
    LET u == unique_phases(d)
    IN IF \E i \in DOMAIN u : Len(u[i].duration) = 2
       THEN [raised |-> TRUE, list |-> <<>>]
       ELSE [raised |-> FALSE, list |-> Take(SortByDuration(<<>>, u), limit)]

----------------------------------------------------------------------------
(* PhaseManager: the write side *)

valid_statuses == {"pending", "in-progress", "completed"}

\* '.'.join(parts[:-1])
ParentId(id) == SubSeq(id, 1, Len(id) - 1)

\* a stamping loop that stops after the first entry it changes
StampNext(phases, s) ==
    [i \in DOMAIN phases |->
        IF phases[i].status # s /\ \A j \in 1..(i - 1) : phases[j].status = s
        THEN [phases[i] EXCEPT !.status = s]
        ELSE phases[i]]

\* for sub_phase in data['phases']: sub_phase['status'] = new_status
StampAll(phases, s) == [i \in DOMAIN phases |-> [phases[i] EXCEPT !.status = s]]

\* the check "all children completed" of update_parent_status_if_all_children_completed
all_children_completed(parent_data) ==
    \A i \in DOMAIN parent_data.phases : parent_data.phases[i].status = "completed"

\* update_parent_status_if_all_children_completed: the directory it leaves
RECURSIVE update_parent_status_if_all_children_completed(_, _)
update_parent_status_if_all_children_completed(d, child_phase_id) ==
    IF Len(child_phase_id) <= 1 THEN d
    ELSE LET parent == ParentId(child_phase_id)
         IN IF ~ Exists(d, parent) THEN d
            ELSE IF d[parent].phases = <<>> THEN d
            ELSE IF all_children_completed(d[parent]) /\ d[parent].status # "completed"
            THEN update_parent_status_if_all_children_completed(
                     [d EXCEPT ![parent].status = "completed"], parent)
            ELSE d

\* an update_status without the recursive calls for the sub-phases
UpdateSubPhasesSkipped(d, phases, new_status) == d

\* update_status with a valid status: the directory it leaves
RECURSIVE update_status_valid(_, _, _)
RECURSIVE UpdateSubPhases(_, _, _)
update_status_valid(d, phase_id, new_status) ==
    IF Exists(d, phase_id)
    THEN LET saved == [d EXCEPT ![phase_id].status = new_status,
                                ![phase_id].phases = StampAll(@, new_status)]
             subs == UpdateSubPhases(saved, saved[phase_id].phases, new_status)
         IN IF new_status = "completed"
            THEN update_parent_status_if_all_children_completed(subs, phase_id)
            ELSE subs
    ELSE IF Exists(d, PhasesName) /\ FirstIndex(d[PhasesName].phases, phase_id) # 0
    THEN [d EXCEPT ![PhasesName].phases[FirstIndex(d[PhasesName].phases, phase_id)].status
                       = new_status]
    ELSE d

UpdateSubPhases(d, phases, new_status) ==
    IF phases = <<>> THEN d
    ELSE UpdateSubPhases(update_status_valid(d, Head(phases).id, new_status),
                         Tail(phases), new_status)

\* update_status: the directory it leaves
update_status(d, phase_id, new_status) ==
    IF new_status \notin valid_statuses THEN d
    ELSE update_status_valid(d, phase_id, new_status)

\* update_status: the value it returns
update_status_result(d, phase_id, new_status) ==
    /\ new_status \in valid_statuses
    /\ \/ Exists(d, phase_id)
       \/ Exists(d, PhasesName) /\ FirstIndex(d[PhasesName].phases, phase_id) # 0

\* update_all_status, first part: phases.json is stamped without a check of the status
StampPhasesFile(d, new_status) ==
    IF Exists(d, PhasesName) /\ d[PhasesName].phases # <<>>
    THEN [d EXCEPT ![PhasesName].phases = StampAll(@, new_status)]
    ELSE d

\* update_all_status, second part: update_status on every file of the listing
RECURSIVE UpdateFiles(_, _, _)
UpdateFiles(acc, files, new_status) ==
    IF files = <<>> THEN acc
    ELSE UpdateFiles(
            [docs |-> update_status(acc.docs, Head(files), new_status),
             count |-> acc.count
                       + (IF update_status_result(acc.docs, Head(files), new_status)
                          THEN 1 ELSE 0)],
            Tail(files), new_status)

\* update_all_status: the directory it leaves and the count it returns
update_all_status(d, new_status) ==
    LET stamped == StampPhasesFile(d, new_status)
    IN UpdateFiles([docs |-> stamped,
                    count |-> IF Exists(d, PhasesName) /\ d[PhasesName].phases # <<>>
                              THEN 1 ELSE 0],
                   get_all_plan_files(stamped), new_status)

----------------------------------------------------------------------------
(* The plan directories a run starts from *)

\* phases.json of end-to-end scenario 1
AggTwo ==
    MkDoc(FALSE, Absent,
          <<MkEntry(<<1>>, "pending", Single(90), <<>>, "none"),
            MkEntry(<<2>>, "pending", Single(30), <<<<1>>>>, "none")>>)

\* phases.json with three top-level nodes over the limit
AggThree ==
    MkDoc(FALSE, Absent,
          <<MkEntry(<<1>>, "pending", Single(90), <<>>, "none"),
            MkEntry(<<2>>, "pending", Single(120), <<<<1>>>>, "none"),
            MkEntry(<<3>>, "pending", Single(75), <<>>, "none")>>)

\* the document a breakdown of node parent writes: children parent.1 and parent.2
BreakdownDoc(parent, title, d1, d2) ==
    MkDoc(title, "pending",
          <<MkEntry(parent \o <<1>>, "pending", d1, <<>>, "none"),
            MkEntry(parent \o <<2>>, "pending", d2, <<>>, "none")>>)

\* a document of a node without children
PlainDoc == MkDoc(TRUE, "pending", <<>>)

AggChoices == {NoDoc, AggTwo, AggThree}
Doc1Choices ==
    {NoDoc,
     BreakdownDoc(<<1>>, TRUE, Single(40), Single(20)),
     BreakdownDoc(<<1>>, FALSE, Single(40), Single(20)),
     BreakdownDoc(<<1>>, TRUE, Single(90), Single(20))}

\* three levels: 1.json lists 1.1 (pending) and 1.2 (completed), 1.1.json
\* lists 1.1.1 and 1.1.2, both completed; 1 and 1.1 are pending
Nested ==
    [n \in Names |->
        IF n = PhasesName THEN AggTwo
        ELSE IF n = <<1>>
        THEN MkDoc(TRUE, "pending",
                   <<MkEntry(<<1, 1>>, "pending", Single(40), <<>>, "none"),
                     MkEntry(<<1, 2>>, "completed", Single(20), <<>>, "none")>>)
        ELSE IF n = <<1, 1>>
        THEN MkDoc(TRUE, "pending",
                   <<MkEntry(<<1, 1, 1>>, "completed", Single(20), <<>>, "none"),
                     MkEntry(<<1, 1, 2>>, "completed", Single(20), <<>>, "none")>>)
        ELSE IF n = <<1, 2>> THEN MkDoc(TRUE, "completed", <<>>)
        ELSE NoDoc]

MkStore(a, one, children) ==
    [n \in Names |->
        IF n = PhasesName THEN a
        ELSE IF n = <<1>> THEN one
        ELSE IF n \in ChildIds /\ children /\ one.exists THEN PlainDoc
        ELSE NoDoc]

\* phases.json that lists its nodes out of id order, two of them with the
\* same priority
AggUnsorted ==
    MkDoc(FALSE, Absent,
          <<MkEntry(<<3>>, "pending", Single(30), <<>>, "high"),
            MkEntry(<<1>>, "pending", Single(30), <<>>, "low"),
            MkEntry(<<2>>, "pending", Single(30), <<>>, "high")>>)

\* phases.json with a range duration
AggRange ==
    MkDoc(FALSE, Absent,
          <<MkEntry(<<1>>, "pending", Range(50, 90), <<>>, "none")>>)

InitStores ==
    {MkStore(a, one, c) : a \in AggChoices, one \in Doc1Choices, c \in BOOLEAN}
    \cup {Nested, MkStore(AggUnsorted, NoDoc, FALSE), MkStore(AggRange, NoDoc, FALSE)}

-----------------------------------------------------------------------------
(* PhaseManager.validate_breakdown_alignment.  A check is given what it
   counts in the breakdown and the context; its answer is the passed flag and
   the number of issue strings. *)

CheckNames ==
    {"strategic_alignment", "boundary_compliance", "coordination_check",
     "architecture_consistency", "expert_coverage"}

\* the keys _calculate_quality_score reads
ScoredChecks ==
    {"strategic_alignment", "boundary_compliance", "coordination_check",
     "architecture_consistency"}

CheckResult(passed, issues) == [passed |-> passed, issues |-> issues]

\* misaligned: the sub-phases that share no word with the parent goal
check_strategic_alignment(misaligned) == CheckResult(misaligned = 0, misaligned)

\* violations: the (sub-phase, constraint) pairs that share a word
check_boundary_compliance(violations) == CheckResult(violations = 0, violations)

\* c.has_siblings, c.points (coordination points listed), c.focus (a
\* sub-phase speaks of coordination)
check_coordination_requirements(c) ==
    IF c.has_siblings /\ ~ c.focus /\ c.points
    THEN CheckResult(FALSE, 1)
    ELSE CheckResult(TRUE, 0)

\* a.principles: how many principles the context lists; a.missing: how many
\* sub-phase texts miss a listed principle
check_architectural_consistency(a) ==
    IF a.principles = 0 THEN CheckResult(TRUE, 0)
    ELSE CheckResult(a.missing <= a.principles \div 2, a.missing)

\* e.phases: the breakdown has sub-phases; e.critical: the core perspectives
\* missing; e.advisory: the other perspectives missing
check_expert_coverage(e) ==
    IF ~ e.phases THEN CheckResult(FALSE, 1)
    ELSE CheckResult(e.critical = 0, e.critical + e.advisory)

RunCheck(name, x) ==
    CASE name = "strategic_alignment" -> check_strategic_alignment(x)
      [] name = "boundary_compliance" -> check_boundary_compliance(x)
      [] name = "coordination_check" -> check_coordination_requirements(x)
      [] name = "architecture_consistency" -> check_architectural_consistency(x)
      [] OTHER -> check_expert_coverage(x)

RECURSIVE SumOver(_, _)
SumOver(f, keys) ==
    IF keys = {} THEN 0
    ELSE LET k == CHOOSE x \in keys : TRUE
         IN f[k] + SumOver(f, keys \ {k})

Min2(a, b) == IF a < b THEN a ELSE b
Max2(a, b) == IF a > b THEN a ELSE b

\* _calculate_quality_score
calculate_quality_score(validation) ==
    LET passed_checks == Cardinality({k \in ScoredChecks : validation[k].passed})
        base_score == (passed_checks * 80) \div Cardinality(ScoredChecks)
        total_issues == SumOver([k \in ScoredChecks |-> validation[k].issues], ScoredChecks)
        issue_penalty == Min2(total_issues * 5, 20)
    IN Max2(0, base_score - issue_penalty)

\* _generate_recommendations: how many issue strings of each check are in the
\* list, and whether the list is the one positive message
generate_recommendations(validation) ==
    LET taken == [k \in CheckNames |->
                     IF ~ validation[k].passed THEN validation[k].issues ELSE 0]
    IN [taken |-> taken, positive |-> \A k \in CheckNames : taken[k] = 0]

\* validate_breakdown_alignment: the five results, is_valid, overall_score and
\* recommendations
validate_breakdown_alignment(input) ==
    LET validation == [k \in CheckNames |-> RunCheck(k, input[k])]
    IN [checks |-> validation,
        is_valid |-> \A k \in CheckNames : validation[k].passed,
        overall_score |-> calculate_quality_score(validation),
        recommendations |-> generate_recommendations(validation)]

\* what the checks of the model are given
IssueCounts == {0, 1, 3}
CoordinationInputs ==
    {[has_siblings |-> TRUE, focus |-> FALSE, points |-> TRUE],
     [has_siblings |-> TRUE, focus |-> TRUE, points |-> TRUE],
     [has_siblings |-> FALSE, focus |-> FALSE, points |-> FALSE]}
ArchitectureInputs ==
    {[principles |-> 0, missing |-> 0], [principles |-> 2, missing |-> 0],
     [principles |-> 2, missing |-> 1], [principles |-> 2, missing |-> 2]}
ExpertInputs ==
    {[phases |-> TRUE, critical |-> 0, advisory |-> 0],
     [phases |-> TRUE, critical |-> 0, advisory |-> 2],
     [phases |-> TRUE, critical |-> 1, advisory |-> 0],
     [phases |-> TRUE, critical |-> 3, advisory |-> 2],
     [phases |-> FALSE, critical |-> 0, advisory |-> 0]}
CheckInputs(name) ==
    CASE name = "strategic_alignment" -> IssueCounts
      [] name = "boundary_compliance" -> IssueCounts
      [] name = "coordination_check" -> CoordinationInputs
      [] name = "architecture_consistency" -> ArchitectureInputs
      [] OTHER -> ExpertInputs
\* a breakdown and a context that give no check anything to report
NoInput ==
    [strategic_alignment |-> 0, boundary_compliance |-> 0,
     coordination_check |-> [has_siblings |-> FALSE, focus |-> FALSE, points |-> FALSE],
     architecture_consistency |-> [principles |-> 0, missing |-> 0],
     expert_coverage |-> [phases |-> TRUE, critical |-> 0, advisory |-> 0]]

ValidationInputs ==
    {input \in
        {[strategic_alignment |-> s, boundary_compliance |-> b,
          coordination_check |-> c, architecture_consistency |-> a,
          expert_coverage |-> e] :
            s \in IssueCounts, b \in IssueCounts, c \in CoordinationInputs,
            a \in ArchitectureInputs, e \in ExpertInputs} :
        \* a breakdown without sub-phases gives the other checks nothing to count
        ~ input.expert_coverage.phases =>
            /\ input.strategic_alignment = 0
            /\ input.boundary_compliance = 0
            /\ input.architecture_consistency.missing = 0
            /\ ~ input.coordination_check.focus}

----------------------------------------------------------------------------
(* The client of PhaseManager (phase_manager_cli, the orchestrators) *)

NoOp ==
    [op |-> "none", id |-> <<>>, status |-> "", ok |-> FALSE, count |-> 0,
     list |-> <<>>, raised |-> FALSE, limit |-> 0, files |-> {}, input |-> NoInput]

CallIds == {<<1>>, <<2>>, <<1, 1>>, <<1, 2>>, GhostId}
CallStatuses == valid_statuses \cup {"invalid"}
CallLimits == {1, 10}

\* the children update_parent_status_if_all_children_completed is called for
ParentCallIds == {<<1, 1>>, <<1, 1, 1>>, <<2>>}

\* the largest max_iterations a run of the model is given
MaxIter == 2

\* the values of max_workers a BreakdownSystem of the model is built with
PoolSizes == {1, 2}

\* the worker ids of the pool
Slots == UNION {1..n : n \in PoolSizes}

IdleWorker ==
    [st |-> "idle", phase_id |-> <<>>, file |-> <<>>, raises |-> FALSE, valid |-> FALSE,
     success |-> FALSE, reg |-> 0, collected |-> FALSE]

NoStats == [total_items |-> 0, successful_items |-> 0, failed_items |-> 0]

(* WorkerMonitor *)

\* the names of WorkerState
WorkerStates == {"IDLE", "ACTIVE", "COMPLETED", "ERROR"}

\* the entry __init__ gives every worker
IdleSlot == [status |-> "IDLE", state |-> "IDLE"]

\* WorkerMonitor.__init__: self._workers for max_workers = n
NewRegistry(n) == [i \in 1..n |-> IdleSlot]

\* the threads that call update_worker and its setters
MonThreads == {"t1", "t2"}

NoCall == [pc |-> "idle", worker_id |-> 0, status |-> "IDLE", state |-> "IDLE"]

\* worker_id, status, state: the locals of _display_workers;
\* summary: what get_summary returned, until the reader's next call
NoSummary == [s \in WorkerStates |-> 0]
NoReader ==
    [pc |-> "idle", worker_id |-> 0, status |-> "IDLE", state |-> "IDLE",
     summed |-> FALSE, summary |-> NoSummary]

(* load_json and repair_json_file.  The text of a file is a name: DocA and
   DocB parse as JSON, BadA and BadB do not. *)
ValidTexts == {"DocA", "DocB"}
MalformedTexts == {"BadA", "BadB"}
NoFile == "none"

\* json.loads(text) succeeds
Parses(text) == text \in ValidTexts

NoLoad ==
    [caller |-> "none", site |-> 0, pc |-> "idle", orig |-> NoFile,
     start |-> [file |-> NoFile, backup |-> NoFile], exit_code |-> 0,
     response |-> "", invoked |-> 0, result |-> "none", caught |-> FALSE]

\* no load_json call is in progress on the one valid document of the model
RepairIdle ==
    /\ disk = [file |-> "DocA", backup |-> NoFile]
    /\ load = NoLoad

(* TaskExecutionSystem *)

\* the four phases of run_task_execution, in the order of its calls
PhaseOrder == <<"analyze", "execute", "validate", "status">>
PhaseNames == {PhaseOrder[k] : k \in DOMAIN PhaseOrder}

\* the agent whose template a phase passes to process_agent_worker;
\* _execute_single_task names its prompt file task_execution_<id>_<stamp>
AgentOf(phase) ==
    CASE phase = "analyze" -> "task-analyzer-executor"
      [] phase = "execute" -> "task_execution"
      [] phase = "validate" -> "task-validator"
      [] phase = "status" -> "task-status-updater"

\* a prompt file name: <agent>_<stamp>.txt, task_execution_<task>_<stamp>.txt
NoPrompt == [agent |-> "none", task |-> <<>>, stamp |-> 0]

\* a unit is the future of one worker function, or the analyzer call of phase 1:
\* the task it works on, its prompt file, what the subprocess found in that
\* file ("own", "other", "missing"), its success and the validator's verdict
NoUnit ==
    [st |-> "none", task |-> <<>>, file |-> NoPrompt, read |-> "none",
     success |-> FALSE, verdict |-> "FAIL"]

NoUnits == [p \in PhaseNames |-> [i \in Slots |-> NoUnit]]

\* run_task_execution is not running
TaskOff ==
    /\ max_tasks = 1
    /\ tpc = "off"
    /\ units = NoUnits
    /\ finished = <<>>
    /\ task_results = <<>>
    /\ timers = {}
    /\ prompt_dir = {}
    /\ now = 0
    /\ task_result = "none"

\* a monitor just built for max_workers workers, no call in progress
MonitorIdle ==
    /\ mon_workers = NewRegistry(max_workers)
    /\ mon_lock = "free"
    /\ calls = [t \in MonThreads |-> NoCall]
    /\ reader = NoReader

\* run_loop is not running
LoopOff ==
    /\ max_workers = 1
    /\ max_iterations = 0
    /\ pc = "off"
    /\ iteration = 0
    /\ found = <<>>
    /\ batch = <<>>
    /\ wk = [i \in Slots |-> IdleWorker]
    /\ mreg = 0
    /\ mflag = FALSE
    /\ stats = NoStats
    /\ result = "none"
    /\ dispatched = 0
    /\ batches = 0
    /\ dispatched_ids = {}
    /\ display = "off"
    /\ MonitorIdle
    /\ RepairIdle
    /\ TaskOff

Init ==
    /\ docs \in InitStores
    /\ lastOp = NoOp
    /\ prevDocs = docs
    /\ opCount = 0
    /\ LoopOff

UpdateStatusCall(id, s) ==
    /\ opCount < MaxOps
    /\ docs' = update_status(docs, id, s)
    /\ lastOp' = [NoOp EXCEPT !.op = "update_status", !.id = id, !.status = s,
                              !.ok = update_status_result(docs, id, s)]
    /\ prevDocs' = docs
    /\ opCount' = opCount + 1
    /\ UNCHANGED loopVars

UpdateAllStatusCall(s) ==
    /\ opCount < MaxOps
    /\ docs' = update_all_status(docs, s).docs
    /\ lastOp' = [NoOp EXCEPT !.op = "update_all_status", !.status = s,
                              !.count = update_all_status(docs, s).count]
    /\ prevDocs' = docs
    /\ opCount' = opCount + 1
    /\ UNCHANGED loopVars

GetWorkableCall ==
    /\ lastOp' = [NoOp EXCEPT !.op = "get_workable_phases",
                              !.list = get_workable_phases(docs)]
    /\ prevDocs' = docs
    /\ UNCHANGED <<docs, opCount>>
    /\ UNCHANGED loopVars

FindBreakdownCall(limit) ==
    /\ lastOp' = [NoOp EXCEPT !.op = "find_phases_needing_breakdown",
                              !.limit = limit,
                              !.list = find_phases_needing_breakdown(docs, limit).list,
                              !.raised = find_phases_needing_breakdown(docs, limit).raised]
    /\ prevDocs' = docs
    /\ UNCHANGED <<docs, opCount>>
    /\ UNCHANGED loopVars

\* the breakdown agent saves <id>.json with the children of node 1
AgentWritesBreakdown(title) ==
    /\ opCount < MaxOps
    /\ ~ Exists(docs, <<1>>)
    /\ docs' = [docs EXCEPT ![<<1>>] = BreakdownDoc(<<1>>, title, Single(40), Single(20))]
    /\ lastOp' = [NoOp EXCEPT !.op = "breakdown", !.id = <<1>>]
    /\ prevDocs' = docs
    /\ opCount' = opCount + 1
    /\ UNCHANGED loopVars

\* a direct call of update_parent_status_if_all_children_completed, as
\* update_status makes it for a node it has set to completed
UpdateParentCall(child) ==
    /\ opCount < MaxOps
    /\ docs' = update_parent_status_if_all_children_completed(docs, child)
    /\ lastOp' = [NoOp EXCEPT !.op = "update_parent", !.id = child, !.ok = TRUE]
    /\ prevDocs' = docs
    /\ opCount' = opCount + 1
    /\ UNCHANGED loopVars

\* the dependency lists are_dependencies_completed is called with
CallDeps == {<<>>, <<<<1>>>>, <<GhostId>>, <<<<1>>, <<2>>>>, <<<<1>>, GhostId>>}

\* are_dependencies_completed(deps); the list is kept in lastOp.list and the
\* answer in lastOp.ok
DependenciesCall(deps) ==
    /\ lastOp' = [NoOp EXCEPT !.op = "are_dependencies_completed", !.list = deps,
                              !.ok = are_dependencies_completed(docs, deps)]
    /\ prevDocs' = docs
    /\ UNCHANGED <<docs, opCount>>
    /\ UNCHANGED loopVars

\* get_phase_status(id); the answer is kept in lastOp.status
GetStatusCall(id) ==
    /\ lastOp' = [NoOp EXCEPT !.op = "get_phase_status", !.id = id,
                              !.status = get_phase_status(docs, id)]
    /\ prevDocs' = docs
    /\ UNCHANGED <<docs, opCount>>
    /\ UNCHANGED loopVars

\* get_all_plan_files(); the answer is kept in lastOp.list
GetAllPlanFilesCall ==
    /\ lastOp' = [NoOp EXCEPT !.op = "get_all_plan_files",
                              !.list = get_all_plan_files(docs)]
    /\ prevDocs' = docs
    /\ UNCHANGED <<docs, opCount>>
    /\ UNCHANGED loopVars

Next ==
    \/ GetAllPlanFilesCall
    \/ \E deps \in CallDeps : DependenciesCall(deps)
    \/ \E id \in CallIds : GetStatusCall(id)
    \/ \E child \in ParentCallIds : UpdateParentCall(child)
    \/ \E id \in CallIds, s \in CallStatuses : UpdateStatusCall(id, s)
    \/ \E s \in CallStatuses : UpdateAllStatusCall(s)
    \/ GetWorkableCall
    \/ \E limit \in CallLimits : FindBreakdownCall(limit)
    \/ \E title \in BOOLEAN : AgentWritesBreakdown(title)

Spec == Init /\ [][Next]_vars

-----------------------------------------------------------------------------
(* The functions of PhaseManager that read no document, called on their own *)

DurationValues == {0, 1, 30, 59, 60, 61, 90, 120, 960, 1440}
Durations ==
    {NoDuration} \cup {Single(v) : v \in DurationValues}
                 \cup {Range(a, b) : a \in DurationValues, b \in DurationValues}

FileNames ==
    {<<"1">>, <<"2">>, <<"1", "0">>, <<"1", ".", "1">>, <<"1", ".", "2">>,
     <<"1", ".", "1", "0">>, <<"1", ".", "1", ".", "1">>, <<"1", "1", ".", "1">>,
     <<"0">>, PhasesText}

\* the calls a client can make, before their answer is known
PureRequests ==
    {[NoOp EXCEPT !.op = "needs_breakdown", !.list = duration] :
        duration \in Durations}
    \cup UNION {{[NoOp EXCEPT !.op = "is_leaf_phase", !.id = file_name,
                                !.files = all_files \cup {file_name}] :
                    all_files \in SUBSET FileNames} : file_name \in FileNames}
    \cup {[NoOp EXCEPT !.op = "validate_breakdown_alignment", !.input = input] :
            input \in ValidationInputs}

\* a client about to make one call; opCount counts the calls answered
PureInit ==
    /\ docs = MkStore(AggTwo, NoDoc, FALSE)
    /\ lastOp \in PureRequests
    /\ prevDocs = docs
    /\ opCount = 0
    /\ LoopOff

Answered == opCount = 1

PureCall(op) ==
    /\ opCount = 0
    /\ lastOp.op = op
    /\ opCount' = 1
    /\ UNCHANGED <<docs, prevDocs>>
    /\ UNCHANGED loopVars

\* needs_breakdown(duration); the answer is kept in lastOp.ok
NeedsBreakdownCall ==
    /\ PureCall("needs_breakdown")
    /\ lastOp' = [lastOp EXCEPT !.ok = needs_breakdown(lastOp.list)]

\* is_leaf_phase(file_path, all_files); the answer is kept in lastOp.ok
IsLeafPhaseCall ==
    /\ PureCall("is_leaf_phase")
    /\ lastOp' = [lastOp EXCEPT !.ok = is_leaf_phase(lastOp.id, lastOp.files)]

\* validate_breakdown_alignment(breakdown_result, context); what the checks
\* are given is lastOp.input, is_valid is kept in lastOp.ok and overall_score
\* in lastOp.count
ValidateCall ==
    /\ PureCall("validate_breakdown_alignment")
    /\ lastOp' =
           [lastOp EXCEPT
               !.ok = validate_breakdown_alignment(lastOp.input).is_valid,
               !.count = validate_breakdown_alignment(lastOp.input).overall_score]

PureNext ==
    \/ NeedsBreakdownCall
    \/ IsLeafPhaseCall
    \/ ValidateCall

PureSpec == PureInit /\ [][PureNext]_vars

----------------------------------------------------------------------------
(* Claims about the plan store, checked under Spec *)

Ids(phases) == [i \in DOMAIN phases |-> phases[i].id]
ListIds(list) == {list[i].id : i \in DOMAIN list}

\* every node id a directory mentions: its individual files and the entries of
\* every phases list
AllNodeIds(d) ==
    {n \in NodeIds : d[n].exists}
    \cup UNION {{d[n].phases[i].id : i \in DOMAIN d[n].phases} : n \in DOMAIN d}

\* leaf, as the data model defines it
IsLeaf(d, id) ==
    /\ ~ \E n \in AllNodeIds(d) : Len(n) = Len(id) + 1 /\ ParentId(n) = id
    /\ ~ (Exists(d, id) /\ d[id].phases # <<>>)

IsCall(o, op, id, s) == o.op = op /\ o.id = id /\ o.status = s

\* parent 1 with children 1.1 and 1.2, all three pending
CascadePre(d) ==
    /\ Exists(d, <<1>>)
    /\ d[<<1>>].status = "pending"
    /\ Ids(d[<<1>>].phases) = <<<<1, 1>>, <<1, 2>>>>
    /\ \A i \in DOMAIN d[<<1>>].phases : d[<<1>>].phases[i].status = "pending"
    /\ \A c \in ChildIds : Exists(d, c) => d[c].status = "pending"

\* C1: with parent 1 and children 1.1, 1.2 all pending, update_status(1.1,
\* completed) leaves 1 pending, and a following update_status(1.2, completed)
\* makes 1 completed
C1_CascadeCompletesParent ==
    [][(IsCall(lastOp, "update_status", <<1, 1>>, "completed") /\ CascadePre(prevDocs))
       => /\ docs[<<1>>].status = "pending"
          /\ (IsCall(lastOp', "update_status", <<1, 2>>, "completed")
              => docs'[<<1>>].status = "completed")]_vars

\* C2: every node get_workable_phases returns is a leaf, is pending and has
\* every dependency completed
C2_ActionableAreLeafPendingUnblocked ==
    lastOp.op = "get_workable_phases"
    => \A i \in DOMAIN lastOp.list :
          /\ IsLeaf(docs, lastOp.list[i].id)
          /\ lastOp.list[i].status = "pending"
          /\ \A k \in DOMAIN lastOp.list[i].deps :
                get_phase_status(docs, lastOp.list[i].deps[k]) = "completed"

\* end-to-end scenario 2: phases.json of scenario 1 and 1.json with the pending
\* children 1.1 (40 minutes) and 1.2 (20 minutes)
Scenario2(d) ==
    /\ d[PhasesName] = AggTwo
    /\ d[<<1>>] = BreakdownDoc(<<1>>, TRUE, Single(40), Single(20))
    /\ \A n \in NodeIds \ {<<1>>} : ~ d[n].exists

\* C3: after the breakdown of node 1 into 1.json, get_workable_phases returns
\* exactly 1.1 and 1.2
C3_ActionableAfterBreakdown ==
    (lastOp.op = "get_workable_phases" /\ Scenario2(docs))
    => /\ Len(lastOp.list) = 2
       /\ ListIds(lastOp.list) = {<<1, 1>>, <<1, 2>>}

\* C4: find_phases_needing_breakdown never returns a node that has its own
\* document, and in scenario 2 it returns the empty list
C4_NoBreakdownForNodeWithDocument ==
    (lastOp.op = "find_phases_needing_breakdown" /\ ~ lastOp.raised)
    => /\ \A i \in DOMAIN lastOp.list : ~ Exists(docs, lastOp.list[i].phase_id)
       /\ (Scenario2(docs) => lastOp.list = <<>>)

C4_Witness ==
    /\ lastOp.op = "find_phases_needing_breakdown"
    /\ ~ lastOp.raised
    /\ Scenario2(docs)
    /\ docs[PhasesName].phases[1].duration = Single(90)
    /\ prevDocs = docs
    /\ lastOp.list = <<>>

----------------------------------------------------------------------------
(* BreakdownSystem.run_loop *)

\* find_phases_needing_breakdown(limit=50)
BreakdownLimit == 50

\* phases.json that lists a sub-phase beside its parent
AggFlat ==
    MkDoc(FALSE, Absent,
          <<MkEntry(<<1>>, "pending", Single(90), <<>>, "none"),
            MkEntry(<<1, 1>>, "pending", Single(90), <<>>, "none")>>)

\* the stores run_loop is started on: an empty plan directory, phases.json
\* alone with two and with three phases to break down, phases.json that
\* lists 1.1 beside a 1.json that embeds it, and a range duration
LoopStores ==
    {MkStore(NoDoc, NoDoc, FALSE),
     MkStore(AggTwo, NoDoc, FALSE),
     MkStore(AggThree, NoDoc, FALSE),
     MkStore(AggFlat, BreakdownDoc(<<1>>, TRUE, Single(90), Single(20)), FALSE),
     MkStore(AggRange, NoDoc, FALSE)}

LoopInit ==
    /\ docs \in LoopStores
    /\ lastOp = NoOp
    /\ prevDocs = docs
    /\ opCount = 0
    /\ max_workers \in PoolSizes
    /\ max_iterations \in 0..MaxIter
    /\ pc = "loop"
    /\ iteration = 0
    /\ found = <<>>
    /\ batch = <<>>
    /\ wk = [i \in Slots |-> IdleWorker]
    /\ mreg = 0
    /\ mflag = FALSE
    /\ stats = NoStats
    /\ result = "none"
    /\ dispatched = 0
    /\ batches = 0
    /\ dispatched_ids = {}
    /\ display = "running"
    /\ MonitorIdle
    /\ RepairIdle
    /\ TaskOff

loop_continues_inclusive(it, max) == it <= max

\* the test of "while iteration < max_iterations"
loop_continues(it, max) == it < max

phases_to_process_wide(needing, workers) == Take(needing, workers + 1)

\* phases_to_process = phases_needing_breakdown[:self.max_workers]
phases_to_process(needing, workers) == Take(needing, workers)

batch_done_any(w, n) == \E i \in 1..n : w[i].collected

\* the with-block of the pool is left when every submitted future is done and
\* as_completed has handed each one to the loop body
batch_done(w, n) == \A i \in 1..n : w[i].collected

\* "while iteration < max_iterations: iteration += 1", and the while's else
WhileTest ==
    /\ pc = "loop"
    /\ IF loop_continues(iteration, max_iterations)
       THEN /\ iteration' = iteration + 1
            /\ pc' = "query"
            /\ UNCHANGED result
       ELSE /\ result' = "exhausted"
            /\ pc' = "done"
            /\ UNCHANGED iteration
    /\ UNCHANGED <<storeVars, max_workers, max_iterations, found, batch, wk, mreg,
                   mflag, stats, dispatched, batches>>
    /\ UNCHANGED <<display, monVars, repairVars, taskVars, dispatched_ids>>

Submitted(list) ==
    [i \in Slots |->
        IF i <= Len(list)
        THEN [IdleWorker EXCEPT !.st = "agent", !.phase_id = list[i].phase_id,
                                !.file = list[i].file]
        ELSE IdleWorker]

\* the query of the iteration, the two early returns, and the submission of
\* the batch to the pool
QueryAndSubmit ==
    /\ pc = "query"
    /\ LET r == find_phases_needing_breakdown(docs, BreakdownLimit)
           todo == phases_to_process(r.list, max_workers)
       IN IF r.raised
          THEN /\ result' = "fatal"
               /\ pc' = "done"
               /\ UNCHANGED <<found, batch, wk, dispatched, batches, dispatched_ids>>
          ELSE IF r.list = <<>>
          THEN /\ result' = "success"
               /\ pc' = "done"
               /\ found' = <<>>
               /\ UNCHANGED <<batch, wk, dispatched, batches, dispatched_ids>>
          ELSE /\ found' = r.list
               /\ batch' = todo
               /\ wk' = Submitted(todo)
               /\ dispatched' = dispatched + Len(todo)
               /\ dispatched_ids' =
                      dispatched_ids \cup {todo[k].phase_id : k \in DOMAIN todo}
               /\ batches' = batches + 1
               /\ pc' = "collect"
               /\ UNCHANGED result
    /\ UNCHANGED <<storeVars, max_workers, max_iterations, iteration, mreg, mflag,
                   stats>>
    /\ UNCHANGED <<display, monVars, repairVars, taskVars>>

AgentOutcomes == {"ok", "fail", "exc"}

\* _process_phase_worker up to the return of the agent invocation in call_agent.
\* The agent saves <phase_id>.json or not, and answers exit code 0 ("ok"), another
\* exit code ("fail") or the invocation raises ("exc"); valid is what the
\* validation of an "ok" response will say.  The step ends with the load of
\* self.total_items += 1 in update_success, which call_agent reaches on all
\* three paths.
AgentReturns(i, outcome, writes, valid) ==
    /\ wk[i].st = "agent"
    /\ outcome # "ok" => ~ writes /\ ~ valid
    /\ docs' = IF writes /\ wk[i].phase_id \in NodeIds
               THEN [docs EXCEPT ![wk[i].phase_id] =
                        BreakdownDoc(wk[i].phase_id, TRUE, Single(40), Single(20))]
               ELSE docs
    /\ wk' = [wk EXCEPT ![i].st = "s_store", ![i].raises = (outcome # "ok"),
                        ![i].valid = valid, ![i].success = (outcome = "ok"),
                        ![i].reg = stats.total_items]
    /\ UNCHANGED <<lastOp, prevDocs, opCount, max_workers, max_iterations, pc,
                   iteration, found, batch, mreg, mflag, stats, result, dispatched,
                   batches>>
    /\ UNCHANGED <<display, monVars, repairVars, taskVars, dispatched_ids>>

\* _create_enhanced_prompt_file returns "": the worker returns success False
\* without a call of the agent
EnhancedPromptFails(i) ==
    /\ wk[i].st = "agent"
    /\ wk' = [wk EXCEPT ![i].st = "returned", ![i].success = FALSE]
    /\ UNCHANGED <<storeVars, max_workers, max_iterations, pc, iteration, found,
                   batch, mreg, mflag, stats, result, dispatched, batches>>
    /\ UNCHANGED <<display, monVars, repairVars, taskVars, dispatched_ids>>

\* create_prompt_file returns "": call_agent returns success False before its
\* update of the statistics, and _process_phase_worker then reads its local
\* success, which no branch has bound: the future raises
AgentPromptFails(i) ==
    /\ wk[i].st = "agent"
    /\ wk' = [wk EXCEPT ![i].st = "raised", ![i].success = FALSE]
    /\ UNCHANGED <<storeVars, max_workers, max_iterations, pc, iteration, found,
                   batch, mreg, mflag, stats, result, dispatched, batches>>
    /\ UNCHANGED <<display, monVars, repairVars, taskVars, dispatched_ids>>

Counter(flag) == IF flag THEN "successful_items" ELSE "failed_items"

\* update_success in call_agent: the store of self.total_items += 1
WorkerStoreTotal(i) ==
    /\ wk[i].st = "s_store"
    /\ stats' = [stats EXCEPT !.total_items = wk[i].reg + 1]
    /\ wk' = [wk EXCEPT ![i].st = "c_load", ![i].reg = 0]
    /\ UNCHANGED <<storeVars, max_workers, max_iterations, pc, iteration, found,
                   batch, mreg, mflag, result, dispatched, batches>>
    /\ UNCHANGED <<display, monVars, repairVars, taskVars, dispatched_ids>>

WorkerLoadCount(i) ==
    /\ wk[i].st = "c_load"
    /\ wk' = [wk EXCEPT ![i].st = "c_store", ![i].reg = stats[Counter(wk[i].success)]]
    /\ UNCHANGED <<storeVars, max_workers, max_iterations, pc, iteration, found,
                   batch, mreg, mflag, stats, result, dispatched, batches>>
    /\ UNCHANGED <<display, monVars, repairVars, taskVars, dispatched_ids>>

\* the store of the second counter, and the rest of the worker: an "ok" answer
\* is validated and the worker returns success = is_valid; after "fail" the
\* worker reads its unbound local success, after "exc" call_agent reads its
\* unbound response_text: the future raises
WorkerStoreCount(i) ==
    /\ wk[i].st = "c_store"
    /\ stats' = [stats EXCEPT ![Counter(wk[i].success)] = wk[i].reg + 1]
    /\ wk' = [wk EXCEPT ![i].st = IF wk[i].raises THEN "raised" ELSE "returned",
                        ![i].success = ~ wk[i].raises /\ wk[i].valid,
                        ![i].raises = FALSE, ![i].valid = FALSE, ![i].reg = 0]
    /\ UNCHANGED <<storeVars, max_workers, max_iterations, pc, iteration, found,
                   batch, mreg, mflag, result, dispatched, batches>>
    /\ UNCHANGED <<display, monVars, repairVars, taskVars, dispatched_ids>>

\* a loop body without the try/except around future.result(): the exception of
\* a worker leaves the with-block and reaches the handler of run_loop
CollectFutureUnguarded(i) ==
    /\ pc = "collect"
    /\ wk[i].st \in {"returned", "raised"}
    /\ ~ wk[i].collected
    /\ wk' = [wk EXCEPT ![i].collected = TRUE]
    /\ IF wk[i].st = "raised"
       THEN /\ pc' = "done"
            /\ result' = "fatal"
            /\ UNCHANGED <<mflag, mreg>>
       ELSE /\ mflag' = wk[i].success
            /\ mreg' = stats.total_items
            /\ pc' = "m_store"
            /\ UNCHANGED result
    /\ UNCHANGED <<storeVars, max_workers, max_iterations, iteration, found, batch,
                   stats, dispatched, batches>>
    /\ UNCHANGED <<display, monVars, repairVars, taskVars, dispatched_ids>>

\* as_completed hands a finished future to the loop body, which starts
\* update_success(result["success"]), or update_success(False) in the except
CollectFuture(i) ==
    /\ pc = "collect"
    /\ wk[i].st \in {"returned", "raised"}
    /\ ~ wk[i].collected
    /\ wk' = [wk EXCEPT ![i].collected = TRUE]
    /\ mflag' = (wk[i].st = "returned" /\ wk[i].success)
    /\ mreg' = stats.total_items
    /\ pc' = "m_store"
    /\ UNCHANGED <<storeVars, max_workers, max_iterations, iteration, found, batch,
                   stats, result, dispatched, batches>>
    /\ UNCHANGED <<display, monVars, repairVars, taskVars, dispatched_ids>>

MainStoreTotal ==
    /\ pc = "m_store"
    /\ stats' = [stats EXCEPT !.total_items = mreg + 1]
    /\ pc' = "m_load"
    /\ mreg' = 0
    /\ UNCHANGED <<storeVars, max_workers, max_iterations, iteration, found, batch,
                   wk, mflag, result, dispatched, batches>>
    /\ UNCHANGED <<display, monVars, repairVars, taskVars, dispatched_ids>>

MainLoadCount ==
    /\ pc = "m_load"
    /\ mreg' = stats[Counter(mflag)]
    /\ pc' = "m_cstore"
    /\ UNCHANGED <<storeVars, max_workers, max_iterations, iteration, found, batch,
                   wk, mflag, stats, result, dispatched, batches>>
    /\ UNCHANGED <<display, monVars, repairVars, taskVars, dispatched_ids>>

MainStoreCount ==
    /\ pc = "m_cstore"
    /\ stats' = [stats EXCEPT ![Counter(mflag)] = mreg + 1]
    /\ pc' = "collect"
    /\ mreg' = 0
    /\ mflag' = FALSE
    /\ UNCHANGED <<storeVars, max_workers, max_iterations, iteration, found, batch,
                   wk, result, dispatched, batches>>
    /\ UNCHANGED <<display, monVars, repairVars, taskVars, dispatched_ids>>

\* the end of the with-block: the finished futures and the lists of the
\* iteration are dropped, back to the while test
EndBatch ==
    /\ pc = "collect"
    /\ batch_done(wk, Len(batch))
    /\ pc' = "loop"
    /\ found' = <<>>
    /\ batch' = <<>>
    /\ wk' = [i \in Slots |-> IF wk[i].collected THEN IdleWorker ELSE wk[i]]
    /\ UNCHANGED <<storeVars, max_workers, max_iterations, iteration, mreg, mflag,
                   stats, result, dispatched, batches>>
    /\ UNCHANGED <<display, monVars, repairVars, taskVars, dispatched_ids>>

\* "finally: self.worker_monitor.stop_display()": the stop event is set and
\* the join with its timeout of one second begins
StopDisplay ==
    /\ pc = "done"
    /\ pc' = "joining"
    /\ display' = IF display = "running" THEN "stopping" ELSE display
    /\ UNCHANGED <<storeVars, max_workers, max_iterations, iteration, found, batch,
                   wk, mreg, mflag, stats, result, dispatched, batches, monVars,
                   repairVars, taskVars, dispatched_ids>>

\* _display_loop: the thread wakes from its sleep of two seconds, finds the
\* stop event set and ends
DisplayExits ==
    /\ display = "stopping"
    /\ display' = "exited"
    /\ UNCHANGED <<storeVars, max_workers, max_iterations, pc, iteration, found,
                   batch, wk, mreg, mflag, stats, result, dispatched, batches, monVars,
                   repairVars, taskVars, dispatched_ids>>

\* join(timeout=1.0) returns when the thread has ended or when the second is
\* over, whichever is first: nothing orders the end of the sleep before it.
\* stop_display returns and run_loop returns with it
JoinReturns ==
    /\ pc = "joining"
    /\ pc' = "returned"
    /\ UNCHANGED <<storeVars, max_workers, max_iterations, iteration, found, batch,
                   wk, mreg, mflag, stats, result, dispatched, batches, display, monVars,
                   repairVars, taskVars, dispatched_ids>>

LoopNext ==
    \/ WhileTest
    \/ QueryAndSubmit
    \/ \E i \in Slots, o \in AgentOutcomes, w \in BOOLEAN, v \in BOOLEAN :
          AgentReturns(i, o, w, v)
    \/ \E i \in Slots : EnhancedPromptFails(i)
    \/ \E i \in Slots : AgentPromptFails(i)
    \/ \E i \in Slots : WorkerStoreTotal(i)
    \/ \E i \in Slots : WorkerLoadCount(i)
    \/ \E i \in Slots : WorkerStoreCount(i)
    \/ \E i \in Slots : CollectFuture(i)
    \/ MainStoreTotal
    \/ MainLoadCount
    \/ MainStoreCount
    \/ EndBatch
    \/ StopDisplay
    \/ DisplayExits
    \/ JoinReturns

LoopSpec == LoopInit /\ [][LoopNext]_vars

\* KeyboardInterrupt is raised in the thread that runs run_loop, anywhere
\* inside the try: the update_success it may be in is abandoned, and when it
\* is inside the with-block the exit of the block waits for the running
\* workers (shutdown(wait=True))
Interrupt ==
    /\ pc \in {"loop", "query", "collect", "m_store", "m_load", "m_cstore"}
    /\ pc' = "interrupted"
    /\ mreg' = 0
    /\ mflag' = FALSE
    /\ UNCHANGED <<storeVars, max_workers, max_iterations, iteration, found, batch,
                   wk, stats, result, dispatched, batches, display, monVars,
                   repairVars, taskVars, dispatched_ids>>

\* "except KeyboardInterrupt: ... return False"
InterruptHandled ==
    /\ pc = "interrupted"
    /\ \A i \in Slots : wk[i].st \in {"idle", "returned", "raised"}
    /\ result' = "interrupted"
    /\ pc' = "done"
    /\ UNCHANGED <<storeVars, max_workers, max_iterations, iteration, found, batch,
                   wk, mreg, mflag, stats, dispatched, batches, display, monVars,
                   repairVars, taskVars, dispatched_ids>>

InterruptNext ==
    \/ LoopNext
    \/ Interrupt
    \/ InterruptHandled

\* run_loop with a user who may press Ctrl+C
InterruptSpec == LoopInit /\ [][InterruptNext]_vars

\* main of the break command: sys.exit(0 if success else 1), where success is
\* what run_loop returned; run_loop returns True on "success" only
exit_status(res) == IF res = "success" THEN 0 ELSE 1

\* every thread that can take a step eventually takes one, and every agent
\* invocation returns
LoopSpecFair == LoopInit /\ [][LoopNext]_vars /\ WF_vars(LoopNext)

----------------------------------------------------------------------------
(* Claims about run_loop *)

Running(w) == w.st \in {"agent", "s_store", "c_load", "c_store"}
Finished(w) == w.st \in {"returned", "raised"}
InBatch == pc \in {"collect", "m_store", "m_load", "m_cstore"}
Smaller(a, b) == IF a < b THEN a ELSE b
StillNeeding == find_phases_needing_breakdown(docs, BreakdownLimit).list

\* C5: after a full run successful + failed equals the number of nodes
\* dispatched: every dispatched node is counted exactly once.
C5_EachDispatchedCountedOnce ==
    pc = "done" => stats.successful_items + stats.failed_items = dispatched

\* C6: in every iteration the batch is the first min(max_workers, available)
\* entries of the list the query returned, every entry of the batch has one
\* worker, and at most max_workers workers run at the same time.
C6_BatchIsMinOfWorkersAndAvailable ==
    InBatch =>
        /\ Len(batch) = Smaller(max_workers, Len(found))
        /\ batch = Take(found, Len(batch))
        /\ \A i \in Slots : wk[i].st # "idle" <=> i <= Len(batch)
        /\ Cardinality({i \in Slots : Running(wk[i])}) <= max_workers

\* 3 available nodes and max_workers = 2: the first pass has dispatched exactly 2
C6_Witness ==
    /\ pc = "collect"
    /\ iteration = 1
    /\ Len(found) = 3
    /\ max_workers = 2
    /\ dispatched = 2
    /\ \A i \in 1..2 : Running(wk[i])

\* C7: within one batch no two concurrently running workers are assigned the
\* same node id.
C7_DistinctNodeIdsInBatch ==
    \A i, j \in Slots :
        (i # j /\ Running(wk[i]) /\ Running(wk[j])) => wk[i].phase_id # wk[j].phase_id

\* C8: between two iterations, at the while test and at the query of the store,
\* no worker of an earlier iteration is still running or uncollected, and a
\* worker is started by the submission that follows the query only.
C8_BarrierBetweenIterations ==
    /\ pc \in {"loop", "query"} => \A i \in Slots : wk[i].st = "idle"
    /\ \A i \in Slots : Running(wk[i]) => InBatch

\* the query of iteration 2 after a batch of two workers
C8_Witness ==
    /\ pc = "query"
    /\ iteration = 2
    /\ dispatched = 2
    /\ batches = 1
    /\ stats.failed_items > 0

\* C9: after at least one batch the run ends as exhausted only when the store
\* still holds nodes to process; when the query that follows the last
\* permitted batch would find none the run ends in success.
C9_ExhaustedOnlyWhenNodesRemain ==
    (pc = "done" /\ batches >= 1 /\ result = "exhausted") => StillNeeding # <<>>

\* steps a worker has left before as_completed has handed it over
WorkerRank(w) ==
    CASE w.st = "agent" -> 8
      [] w.st = "s_store" -> 7
      [] w.st = "c_load" -> 6
      [] w.st = "c_store" -> 5
      [] Finished(w) /\ ~ w.collected -> 4
      [] OTHER -> 0

RECURSIVE SumRanks(_, _)
SumRanks(w, S) ==
    IF S = {} THEN 0
    ELSE LET i == CHOOSE x \in S : TRUE
         IN WorkerRank(w[i]) + SumRanks(w, S \ {i})

\* steps the loop body has left in the current iteration
BodyRank ==
    CASE pc = "query" -> 8 * Cardinality(Slots) + 5
      [] pc = "collect" -> 1
      [] pc = "m_cstore" -> 2
      [] pc = "m_load" -> 3
      [] pc = "m_store" -> 4
      [] OTHER -> 0

IterationRank == 8 * Cardinality(Slots) + 6

\* a bound on the steps run_loop has left
Measure ==
    (IF display = "exited" THEN 0 ELSE 1)
    + (CASE pc = "returned" -> 0
         [] pc = "joining" -> 1
         [] pc = "done" -> 2
         [] OTHER -> 3 + (max_iterations - iteration) * IterationRank + BodyRank
                       + SumRanks(wk, Slots))

\* the guards of the actions of LoopNext: the main thread is at the while
\* test, at the query or inside update_success, or it waits in as_completed
\* and a worker can step, a finished future can be handed over, or the
\* with-block can be left
SomeThreadCanStep ==
    \/ pc \in {"loop", "query", "m_store", "m_load", "m_cstore", "done", "joining"}
    \/ display = "stopping"
    \/ \E i \in Slots : Running(wk[i])
    \/ /\ pc = "collect"
       /\ \/ \E i \in Slots : Finished(wk[i]) /\ ~ wk[i].collected
          \/ batch_done(wk, Len(batch))

\* C10: run_loop terminates after at most max_iterations batches: in every state
\* but the final one some thread can take a step, every step lowers a natural
\* number, and the number of batches dispatched never exceeds max_iterations.
C10_TerminatesWithinMaxIterations ==
    /\ [](batches <= max_iterations)
    /\ [](Measure \in Nat)
    /\ [](~ (pc = "returned" /\ display = "exited") => SomeThreadCanStep)
    /\ [][Measure' < Measure]_vars

\* every permitted batch was dispatched, every invocation failed, the same
\* nodes still need breakdown, and the run has ended
C10_Witness ==
    /\ pc = "done"
    /\ max_iterations >= 2
    /\ batches = max_iterations
    /\ stats.successful_items = 0
    /\ stats.failed_items > 0
    /\ StillNeeding # <<>>

NeedingIds(d) ==
    LET l == find_phases_needing_breakdown(d, BreakdownLimit).list
    IN {l[k].phase_id : k \in DOMAIN l}

\* C12: when the invocation for a node has failed, at the end of the batch the
\* failure count has risen, the node's stored status is the one it was
\* dispatched with, and the next query of the store returns the node again.
C12_FailedNodeStaysEligible ==
    (pc = "collect" /\ batch_done(wk, Len(batch))) =>
        \A i \in 1..Len(batch) :
            wk[i].st = "raised" =>
                /\ stats.failed_items > 0
                /\ get_phase_status(docs, batch[i].phase_id) \in {batch[i].status, "unknown"}
                /\ batch[i].phase_id \in NeedingIds(docs)

\* C13: a node whose response failed validation changes the counters as a node
\* whose invocation failed does: after the one node of a run has been
\* collected as not successful, by either way, successful_items is still 0.
C13_InvalidCountsAsInvocationFailure ==
    (/\ dispatched = 1
     /\ pc = "collect"
     /\ wk[1].collected
     /\ ~ (wk[1].st = "returned" /\ wk[1].success)) =>
        stats.successful_items = 0

\* C14: after a user interrupt the workers already dispatched have finished,
\* no batch was dispatched after it, and the display thread of the monitor
\* has stopped by the time run_loop returns.
C14_InterruptStopsDisplayThread ==
    (pc = "returned" /\ result = "interrupted") =>
        /\ \A i \in Slots : ~ Running(wk[i])
        /\ display = "exited"

\* C15: a user interrupt during the run makes the process exit with status
\* 130, wherever in the run it arrives.
C15_InterruptExitsWith130 ==
    (pc = "returned" /\ result = "interrupted") => exit_status(result) = 130

----------------------------------------------------------------------------
(* Claims about the status operations, checked under Spec *)

\* every status field a document of the plan directory holds
StoredStatuses(d) ==
    {d[n].status : n \in {m \in DOMAIN d : d[m].exists}}
    \cup UNION {{d[n].phases[i].status : i \in DOMAIN d[n].phases} : n \in DOMAIN d}

IsStatusCall(o) == o.op \in {"update_status", "update_all_status"}

\* C16: after any sequence of update_status and update_all_status calls with
\* arbitrary status arguments every stored status is pending, in-progress or
\* completed, and a call with another value changes no document.
C16_StoredStatusesAreValid ==
    /\ StoredStatuses(docs) \subseteq valid_statuses \cup {Absent}
    /\ (IsStatusCall(lastOp) /\ lastOp.status \notin valid_statuses) => docs = prevDocs

\* C17: update_status(id, s) is idempotent: calling it again on the store it
\* has just left changes no document.
C17_UpdateStatusIsIdempotent ==
    [][lastOp'.op = "update_status" =>
         update_status(docs', lastOp'.id, lastOp'.status) = docs']_vars

\* update_status on node 1, whose document embeds children and whose child
\* 1.1 has a document of its own, has changed the store
C17_Witness ==
    /\ lastOp.op = "update_status"
    /\ lastOp.ok
    /\ lastOp.id = <<1>>
    /\ docs # prevDocs
    /\ Len(docs[<<1>>].phases) = 2
    /\ Exists(docs, <<1, 1>>)
    /\ update_status(docs, lastOp.id, lastOp.status) = docs

\* the step has promoted node n to completed
Promoted(n) ==
    /\ n \in NodeIds
    /\ Exists(docs, n)
    /\ docs[n].status # "completed"
    /\ docs'[n].status = "completed"

\* n is listed in g's document and every other entry there reads completed
LastOpenChild(d, g, n) ==
    /\ Exists(d, g)
    /\ \E i \in DOMAIN d[g].phases : d[g].phases[i].id = n
    /\ \A i \in DOMAIN d[g].phases :
          d[g].phases[i].id # n => d[g].phases[i].status = "completed"

\* C18: when the auto-promotion makes a parent completed and the parent was the
\* last non-completed child of its own parent, the grandparent is completed as
\* well; no node is promoted while an entry of its document is not completed.
C18_PromotionCascadesToRoot ==
    [][lastOp'.op = "update_parent" =>
         \A n \in NodeIds :
            Promoted(n) =>
                /\ all_children_completed(docs'[n])
                /\ (Len(n) > 1 /\ LastOpenChild(docs, ParentId(n), n)) =>
                        docs'[ParentId(n)].status = "completed"]_vars

\* C19: after update_status(P, s) has succeeded on a node whose document embeds
\* children, P and every embedded entry of P's document have status s, and so
\* has the document of every child that has one.
C19_StatusCascadesDownward ==
    [][(/\ lastOp'.op = "update_status"
        /\ lastOp'.ok
        /\ lastOp'.id \in NodeIds
        /\ Exists(docs, lastOp'.id)
        /\ docs[lastOp'.id].phases # <<>>) =>
            LET P == lastOp'.id
                s == lastOp'.status
            IN /\ docs'[P].status = s
               /\ Len(docs'[P].phases) = Len(docs[P].phases)
               /\ \A i \in DOMAIN docs'[P].phases :
                    /\ docs'[P].phases[i].status = s
                    /\ (docs'[P].phases[i].id \in NodeIds
                        /\ Exists(docs', docs'[P].phases[i].id)) =>
                            docs'[docs'[P].phases[i].id].status = s]_vars

\* node 1 with embedded children 1.1 and 1.2, which have documents of their
\* own, was set from pending to completed
C19_Witness ==
    /\ lastOp.op = "update_status"
    /\ lastOp.ok
    /\ lastOp.id = <<1>>
    /\ lastOp.status = "completed"
    /\ prevDocs[<<1>>].status = "pending"
    /\ \A c \in ChildIds : prevDocs[c].exists /\ prevDocs[c].status = "pending"
    /\ \A c \in ChildIds : docs[c].status = "completed"
    /\ \A i \in DOMAIN docs[<<1>>].phases : docs[<<1>>].phases[i].status = "completed"

\* the entries of phases.json with the given id
AggregateEntries(d, id) ==
    IF Exists(d, PhasesName)
    THEN {i \in DOMAIN d[PhasesName].phases : d[PhasesName].phases[i].id = id}
    ELSE {}

\* C20: get_phase_status(id) answers the status of the node's individual
\* document when there is one, whatever phases.json lists for the id, otherwise
\* the status phases.json lists for it, and unknown when the id is in neither
\* (a missing status field reads as pending).
C20_StatusLookupOrder ==
    lastOp.op = "get_phase_status" =>
        LET id == lastOp.id
            agg == AggregateEntries(docs, id)
        IN /\ docs[PhasesName].exists \/ agg = {}
           /\ (id \in NodeIds /\ docs[id].exists) =>
                  lastOp.status = StatusOr(docs[id].status, "pending")
           /\ (~ (id \in NodeIds /\ docs[id].exists) /\ agg # {}) =>
                  \E i \in agg :
                     /\ \A j \in agg : i <= j
                     /\ lastOp.status = StatusOr(docs[PhasesName].phases[i].status, "pending")
           /\ (~ (id \in NodeIds /\ docs[id].exists) /\ agg = {}) =>
                  lastOp.status = "unknown"

\* node 1 is completed in 1.json and pending in phases.json, and the answer
\* is completed
C20_Witness ==
    /\ lastOp.op = "get_phase_status"
    /\ lastOp.id = <<1>>
    /\ docs[<<1>>].exists
    /\ docs[<<1>>].status = "completed"
    /\ \E i \in AggregateEntries(docs, <<1>>) : docs[PhasesName].phases[i].status = "pending"
    /\ lastOp.status = "completed"

-----------------------------------------------------------------------------
(* WorkerMonitor used by several threads at once.  A step is what one thread
   does between two points where another thread can run: the membership
   test, taking the lock, each assignment under the lock, leaving the lock. *)

\* the worker ids the calls of the model name: the slots and an id outside
CallWorkerIds == 1..3

\* the status text of an update_worker call of the agent, and of the setters
ActiveText == "Calling Claude"
CompletedText == "[COMPLETED]"
ErrorText == "[ERROR] Exception"

\* the status and state one call passes to update_worker
WrittenPairs ==
    {[status |-> ActiveText, state |-> "ACTIVE"],
     [status |-> "IDLE", state |-> "IDLE"],
     [status |-> CompletedText, state |-> "COMPLETED"],
     [status |-> ErrorText, state |-> "ERROR"]}

MonitorInit ==
    /\ docs = MkStore(NoDoc, NoDoc, FALSE)
    /\ lastOp = NoOp
    /\ prevDocs = docs
    /\ opCount = 0
    /\ max_workers \in PoolSizes
    /\ max_iterations = 0
    /\ pc = "off"
    /\ iteration = 0
    /\ found = <<>>
    /\ batch = <<>>
    /\ wk = [i \in Slots |-> IdleWorker]
    /\ mreg = 0
    /\ mflag = FALSE
    /\ stats = NoStats
    /\ result = "none"
    /\ dispatched = 0
    /\ batches = 0
    /\ dispatched_ids = {}
    /\ display = "running"
    /\ MonitorIdle
    /\ RepairIdle
    /\ TaskOff

MonitorFrame ==
    UNCHANGED <<storeVars, max_workers, max_iterations, pc, iteration, found, batch,
                wk, mreg, mflag, stats, result, dispatched, batches, display,
                repairVars, taskVars, dispatched_ids>>

\* a membership test that lets every id through
worker_known_any(w, worker_id) == TRUE

\* "worker_id not in self._workers" is false
worker_known(w, worker_id) == worker_id \in DOMAIN w

\* a lock that is handed to whoever asks
can_acquire_always(l) == TRUE

\* "with self._lock" can be entered
can_acquire(l) == l = "free"

\* the loop of get_summary
count_by_state(w) ==
    [s \in WorkerStates |-> Cardinality({i \in DOMAIN w : w[i].state = s})]

\* update_worker(worker_id, status, state) up to the lock: an unknown id
\* returns at once
update_worker(t, worker_id, status, state) ==
    /\ calls[t].pc = "idle"
    /\ calls' = [calls EXCEPT ![t] =
                    IF worker_known(mon_workers, worker_id)
                    THEN [pc |-> "acquire", worker_id |-> worker_id,
                          status |-> status, state |-> state]
                    ELSE [NoCall EXCEPT !.worker_id = worker_id]]
    /\ UNCHANGED <<mon_workers, mon_lock, reader>>
    /\ MonitorFrame

UpdateWorker(t, worker_id) == update_worker(t, worker_id, ActiveText, "ACTIVE")
SetWorkerIdle(t, worker_id) == update_worker(t, worker_id, "IDLE", "IDLE")
SetWorkerCompleted(t, worker_id) ==
    update_worker(t, worker_id, CompletedText, "COMPLETED")
SetWorkerError(t, worker_id) == update_worker(t, worker_id, ErrorText, "ERROR")

\* with self._lock:
UpdateAcquire(t) ==
    /\ calls[t].pc = "acquire"
    /\ can_acquire(mon_lock)
    /\ mon_lock' = t
    /\ calls' = [calls EXCEPT ![t].pc = "status"]
    /\ UNCHANGED <<mon_workers, reader>>
    /\ MonitorFrame

\* self._workers[worker_id]['status'] = status
UpdateWriteStatus(t) ==
    /\ calls[t].pc = "status"
    /\ mon_workers' = IF calls[t].worker_id \in DOMAIN mon_workers
                      THEN [mon_workers EXCEPT
                               ![calls[t].worker_id].status = calls[t].status]
                      ELSE mon_workers
    /\ calls' = [calls EXCEPT ![t].pc = "state"]
    /\ UNCHANGED <<mon_lock, reader>>
    /\ MonitorFrame

\* self._workers[worker_id]['state'] = state
UpdateWriteState(t) ==
    /\ calls[t].pc = "state"
    /\ mon_workers' = IF calls[t].worker_id \in DOMAIN mon_workers
                      THEN [mon_workers EXCEPT
                               ![calls[t].worker_id].state = calls[t].state]
                      ELSE mon_workers
    /\ calls' = [calls EXCEPT ![t].pc = "release"]
    /\ UNCHANGED <<mon_lock, reader>>
    /\ MonitorFrame

\* last_update is stamped and the with block is left
UpdateRelease(t) ==
    /\ calls[t].pc = "release"
    /\ mon_lock' = "free"
    /\ calls' = [calls EXCEPT ![t] = NoCall]
    /\ UNCHANGED <<mon_workers, reader>>
    /\ MonitorFrame

\* _display_workers is called by the display loop: the for loop starts
DisplayBegin ==
    /\ reader.pc = "idle"
    /\ display = "running"
    /\ reader' = [NoReader EXCEPT !.pc = "d_acquire", !.worker_id = 1]
    /\ UNCHANGED <<mon_workers, mon_lock, calls>>
    /\ MonitorFrame

DisplayAcquire ==
    /\ reader.pc = "d_acquire"
    /\ can_acquire(mon_lock)
    /\ mon_lock' = "reader"
    /\ reader' = [reader EXCEPT !.pc = "d_status"]
    /\ UNCHANGED <<mon_workers, calls>>
    /\ MonitorFrame

\* status = worker_data['status']
DisplayReadStatus ==
    /\ reader.pc = "d_status"
    /\ reader' = [reader EXCEPT !.pc = "d_state",
                                !.status = mon_workers[reader.worker_id].status]
    /\ UNCHANGED <<mon_workers, mon_lock, calls>>
    /\ MonitorFrame

\* state = worker_data['state']
DisplayReadState ==
    /\ reader.pc = "d_state"
    /\ reader' = [reader EXCEPT !.pc = "d_print",
                                !.state = mon_workers[reader.worker_id].state]
    /\ UNCHANGED <<mon_workers, mon_lock, calls>>
    /\ MonitorFrame

\* the with block is left, the line is printed, the loop goes on
DisplayPrint ==
    /\ reader.pc = "d_print"
    /\ mon_lock' = "free"
    /\ reader' = IF reader.worker_id < max_workers
                  THEN [NoReader EXCEPT !.pc = "d_acquire",
                                        !.worker_id = reader.worker_id + 1]
                  ELSE NoReader
    /\ UNCHANGED <<mon_workers, calls>>
    /\ MonitorFrame

\* get_summary is called
SummaryBegin ==
    /\ reader.pc = "idle"
    /\ reader' = [NoReader EXCEPT !.pc = "s_acquire"]
    /\ UNCHANGED <<mon_workers, mon_lock, calls>>
    /\ MonitorFrame

SummaryAcquire ==
    /\ reader.pc = "s_acquire"
    /\ can_acquire(mon_lock)
    /\ mon_lock' = "reader"
    /\ reader' = [reader EXCEPT !.pc = "s_count"]
    /\ UNCHANGED <<mon_workers, calls>>
    /\ MonitorFrame

\* the loop over self._workers.values(), then the with block is left and the
\* summary returned
SummaryReturn ==
    /\ reader.pc = "s_count"
    /\ mon_lock' = "free"
    /\ reader' = [reader EXCEPT !.pc = "idle", !.summed = TRUE,
                                !.summary = count_by_state(mon_workers)]
    /\ UNCHANGED <<mon_workers, calls>>
    /\ MonitorFrame

MonitorNext ==
    \/ \E t \in MonThreads, worker_id \in CallWorkerIds : UpdateWorker(t, worker_id)
    \/ \E t \in MonThreads, worker_id \in CallWorkerIds : SetWorkerIdle(t, worker_id)
    \/ \E t \in MonThreads, worker_id \in CallWorkerIds : SetWorkerCompleted(t, worker_id)
    \/ \E t \in MonThreads, worker_id \in CallWorkerIds : SetWorkerError(t, worker_id)
    \/ \E t \in MonThreads : UpdateAcquire(t)
    \/ \E t \in MonThreads : UpdateWriteStatus(t)
    \/ \E t \in MonThreads : UpdateWriteState(t)
    \/ \E t \in MonThreads : UpdateRelease(t)
    \/ DisplayBegin
    \/ DisplayAcquire
    \/ DisplayReadStatus
    \/ DisplayReadState
    \/ DisplayPrint
    \/ SummaryBegin
    \/ SummaryAcquire
    \/ SummaryReturn

MonitorSpec == MonitorInit /\ [][MonitorNext]_vars

-----------------------------------------------------------------------------
(* PhaseManager.load_json on a document that may be malformed, called on its
   own and by build_strategic_context.  The invoker (ClaudeStreamer) answers
   with any exit code and any text, or raises. *)

ExitCodes == {0, 1}
Responses == {"", "DocA", "DocB", "BadA"}

\* the load_json calls build_strategic_context("1") makes on a directory that
\* holds phases.json alone, all of them on phases.json
ContextSites ==
    <<"_get_project_strategic_dna", "_get_project_root_info", "_get_phase_info">>

RepairInit ==
    /\ docs = MkStore(AggTwo, NoDoc, FALSE)
    /\ lastOp = NoOp
    /\ prevDocs = docs
    /\ opCount = 0
    /\ LoopOff

RepairFrame == UNCHANGED <<storeVars, max_workers, max_iterations, pc, iteration,
                           found, batch, wk, mreg, mflag, stats, result, dispatched,
                           batches, display, monVars, taskVars, dispatched_ids>>

\* a repair that overwrites whenever the response parses, whatever the exit code
overwrite_allowed_any_exit(exit_code, response) == Parses(response)

\* "if exit_code == 0 and repaired_json.strip()" and json.loads(repaired_json)
overwrite_allowed(exit_code, response) ==
    exit_code = 0 /\ response # "" /\ Parses(response)

\* load_json: open and json.load; a malformed text goes to repair_json_file
StartLoad(caller, site) ==
    /\ load' = [NoLoad EXCEPT
                   !.caller = caller, !.site = site, !.orig = disk.file,
                   !.start = IF site <= 1 THEN disk ELSE load.start,
                   !.pc = IF Parses(disk.file) THEN "returned" ELSE "backup",
                   !.result = IF Parses(disk.file) THEN disk.file ELSE "none"]
    /\ UNCHANGED disk
    /\ RepairFrame

\* a client calls load_json(file_path)
LoadJsonCall ==
    /\ load.pc \in {"idle", "returned"}
    /\ load.caller = "build_strategic_context" => load.site = Len(ContextSites)
    /\ StartLoad("load_json", 0)

\* build_strategic_context(phase_id) is called: its first load_json
BuildContextCall ==
    /\ load.pc \in {"idle", "returned"}
    /\ load.caller = "build_strategic_context" => load.site = Len(ContextSites)
    /\ StartLoad("build_strategic_context", 1)

\* build_strategic_context goes on to its next load_json
BuildContextNext ==
    /\ load.pc = "returned"
    /\ load.caller = "build_strategic_context"
    /\ load.site < Len(ContextSites)
    /\ StartLoad("build_strategic_context", load.site + 1)

\* a writer outside the model's calls leaves the document malformed or valid
DocumentIsWritten(text) ==
    /\ load.pc \in {"idle", "returned"}
    /\ load.caller = "build_strategic_context" => load.site = Len(ContextSites)
    /\ disk.file # text
    /\ disk' = [disk EXCEPT !.file = text]
    /\ load' = NoLoad
    /\ RepairFrame

\* shutil.copy2(file_path, backup_path)
CreateBackup ==
    /\ load.pc = "backup"
    /\ disk' = [disk EXCEPT !.backup = disk.file]
    /\ load' = [load EXCEPT !.pc = "invoke"]
    /\ RepairFrame

\* streamer.get_response(repair_prompt) returns
InvokerReturns(exit_code, response) ==
    /\ load.pc = "invoke"
    /\ load' = [load EXCEPT !.pc = "validate", !.invoked = @ + 1,
                            !.exit_code = exit_code, !.response = response]
    /\ UNCHANGED disk
    /\ RepairFrame

\* streamer.get_response raises: "except Exception" copies the backup back
\* and repair_json_file returns None, load_json returns {}
InvokerRaises ==
    /\ load.pc = "invoke"
    /\ disk' = IF disk.backup # NoFile THEN [disk EXCEPT !.file = disk.backup]
               ELSE disk
    /\ load' = [load EXCEPT !.pc = "returned", !.invoked = @ + 1,
                            !.caught = TRUE, !.result = "empty"]
    /\ RepairFrame

\* the test of the exit code and json.loads(repaired_json)
ValidateResponse ==
    /\ load.pc = "validate"
    /\ load' = IF overwrite_allowed(load.exit_code, load.response)
               THEN [load EXCEPT !.pc = "write"]
               ELSE [load EXCEPT !.pc = "returned", !.result = "empty"]
    /\ UNCHANGED disk
    /\ RepairFrame

\* f.write(repaired_json); load_json returns json.loads(repaired_json)
WriteRepaired ==
    /\ load.pc = "write"
    /\ disk' = [disk EXCEPT !.file = load.response]
    /\ load' = [load EXCEPT !.pc = "returned", !.result = load.response]
    /\ RepairFrame

RepairNext ==
    \/ LoadJsonCall
    \/ BuildContextCall
    \/ BuildContextNext
    \/ \E text \in ValidTexts \cup MalformedTexts : DocumentIsWritten(text)
    \/ CreateBackup
    \/ \E exit_code \in ExitCodes, response \in Responses :
          InvokerReturns(exit_code, response)
    \/ InvokerRaises
    \/ ValidateResponse
    \/ WriteRepaired

RepairSpec == RepairInit /\ [][RepairNext]_vars

----------------------------------------------------------------------------
(* TaskExecutionSystem.run_task_execution: the thread that runs the four
   phases, the units of each phase, the delayed_idle threads, the prompt
   directory and the clock that stamps the prompt files *)

\* the seconds the clock goes through while the pipeline runs
MaxSecond == 1

\* a plan directory without a workable task, and one with three
TaskStores == {MkStore(NoDoc, NoDoc, FALSE), MkStore(AggUnsorted, NoDoc, FALSE)}

\* TaskExecutionSystem(max_tasks) built, run_task_execution entered: the
\* display is started, nothing is submitted
TaskInit ==
    /\ docs \in TaskStores
    /\ lastOp = NoOp
    /\ prevDocs = docs
    /\ opCount = 0
    /\ max_workers = 1
    /\ max_iterations = 0
    /\ pc = "off"
    /\ iteration = 0
    /\ found = <<>>
    /\ batch = <<>>
    /\ wk = [i \in Slots |-> IdleWorker]
    /\ mreg = 0
    /\ mflag = FALSE
    /\ stats = NoStats
    /\ result = "none"
    /\ dispatched = 0
    /\ batches = 0
    /\ dispatched_ids = {}
    /\ display = "running"
    /\ max_tasks \in PoolSizes
    /\ mon_workers = NewRegistry(max_tasks)
    /\ mon_lock = "free"
    /\ calls = [t \in MonThreads |-> NoCall]
    /\ reader = NoReader
    /\ RepairIdle
    /\ tpc = "start"
    /\ units = NoUnits
    /\ finished = <<>>
    /\ task_results = <<>>
    /\ timers = {}
    /\ prompt_dir = {}
    /\ now = 0
    /\ task_result = "none"

TaskFrame ==
    UNCHANGED <<storeVars, max_workers, max_iterations, pc, iteration, found, batch,
                wk, mreg, mflag, result, dispatched, batches, dispatched_ids,
                mon_lock, calls, reader, repairVars, max_tasks>>

\* a pool that is left as soon as it has been filled
phase_done_any(u) == TRUE

\* the with-block of a phase's pool is left, or process_agent_worker has
\* returned to _phase_1_task_analysis: no unit of the phase is still running
phase_done(u) == \A i \in DOMAIN u : u[i].st \in {"none", "returned"}

\* executor.submit(worker function, task)
Submit(task) == [NoUnit EXCEPT !.st = "submitted", !.task = task]

\* create_prompt_file: <agent_name>_<%Y%m%d_%H%M%S>.txt; _execute_single_task:
\* task_execution_<task id>_<%Y%m%d_%H%M%S>.txt
PromptName(phase, u) ==
    [agent |-> AgentOf(phase),
     task |-> IF phase = "execute" THEN u.task ELSE <<>>,
     stamp |-> now]

\* update_worker(worker_id, status, state) as a whole, which runs under the lock
set_worker(w, worker_id, status, state) ==
    IF worker_known(w, worker_id)
    THEN [w EXCEPT ![worker_id] = [status |-> status, state |-> state]]
    ELSE w

\* StatisticsTracker.update_success, its two increments taken together
update_success(s, success) ==
    [s EXCEPT !.total_items = @ + 1, ![Counter(success)] = @ + 1]

\* run_task_execution up to the call of the analyzer: without a workable task
\* phase 1 returns True, the second query is empty too and the run returns True
StartRun ==
    /\ tpc = "start"
    /\ IF get_workable_phases(docs) = <<>>
       THEN /\ tpc' = "done"
            /\ task_result' = "true"
            /\ UNCHANGED units
       ELSE /\ units' = [units EXCEPT !["analyze"][1] = Submit(<<>>)]
            /\ tpc' = "analyze"
            /\ UNCHANGED task_result
    /\ UNCHANGED <<stats, display, mon_workers, finished, task_results, timers,
                   prompt_dir, now>>
    /\ TaskFrame

\* get_agent_template raises: _phase_1_task_analysis returns False,
\* _validate_single_task returns FAIL, _update_single_task_status returns
\* success False, each without a call of the agent
TemplateFails(p, i) ==
    /\ p # "execute"
    /\ units[p][i].st = "submitted"
    /\ units' = [units EXCEPT ![p][i].st = "returned"]
    /\ finished' = Append(finished, i)
    /\ UNCHANGED <<stats, display, mon_workers, tpc, task_results, timers,
                   prompt_dir, now, task_result>>
    /\ TaskFrame

\* the first update_worker(worker_id, ..., WorkerState.ACTIVE) of call_agent
\* and of _execute_single_task
MarkActive(p, i) ==
    /\ units[p][i].st = "submitted"
    /\ units' = [units EXCEPT ![p][i].st = "active"]
    /\ mon_workers' = set_worker(mon_workers, i, ActiveText, "ACTIVE")
    /\ UNCHANGED <<stats, display, tpc, finished, task_results, timers, prompt_dir,
                   now, task_result>>
    /\ TaskFrame

\* open(prompt_file, 'w') and the write of the prompt: a file of that name
\* is replaced
CreatePrompt(p, i) ==
    /\ units[p][i].st = "active"
    /\ LET name == PromptName(p, units[p][i])
       IN /\ units' = [units EXCEPT ![p][i].st = "created", ![p][i].file = name]
          /\ prompt_dir' = {f \in prompt_dir : f.name # name}
                           \cup {[name |-> name, content |-> units[p][i].task]}
    /\ UNCHANGED <<stats, display, mon_workers, tpc, finished, task_results, timers,
                   now, task_result>>
    /\ TaskFrame

\* the prompt file cannot be written.  call_agent marks the worker ERROR and
\* returns before its update of the statistics; _execute_single_task reaches
\* its except and then its update_success(False)
PromptFileFails(p, i) ==
    /\ units[p][i].st = "active"
    /\ units' = [units EXCEPT ![p][i].st = "answered", ![p][i].success = FALSE]
    /\ mon_workers' = set_worker(mon_workers, i, ErrorText, "ERROR")
    /\ stats' = IF p = "execute" THEN update_success(stats, FALSE) ELSE stats
    /\ UNCHANGED <<display, tpc, finished, task_results, timers, prompt_dir, now,
                   task_result>>
    /\ TaskFrame

\* get_response_from_file_with_stream starts the subprocess with @<file>, and
\* the subprocess opens the file of that name
SubprocessReads(p, i) ==
    /\ units[p][i].st = "created"
    /\ LET here == {f \in prompt_dir : f.name = units[p][i].file}
       IN units' = [units EXCEPT ![p][i].st = "invoked",
                       ![p][i].read =
                           IF here = {} THEN "missing"
                           ELSE IF \E f \in here : f.content = units[p][i].task
                           THEN "own" ELSE "other"]
    /\ UNCHANGED <<stats, display, mon_workers, tpc, finished, task_results, timers,
                   prompt_dir, now, task_result>>
    /\ TaskFrame

\* the subprocess ends with exit code 0 (ok) or another one: the worker is
\* marked COMPLETED or ERROR, the finally removes the prompt file of that
\* name, and update_success counts the invocation.  A validator's answer
\* holds PASS, PARTIAL or neither
Answer(p, i, ok, verdict) ==
    /\ units[p][i].st = "invoked"
    /\ (p # "validate" \/ ~ ok) => verdict = "FAIL"
    /\ units' = [units EXCEPT ![p][i].st = "answered", ![p][i].success = ok,
                              ![p][i].verdict = verdict]
    /\ mon_workers' = IF ok THEN set_worker(mon_workers, i, CompletedText, "COMPLETED")
                      ELSE set_worker(mon_workers, i, ErrorText, "ERROR")
    /\ prompt_dir' = {f \in prompt_dir : f.name # units[p][i].file}
    /\ stats' = update_success(stats, ok)
    /\ UNCHANGED <<display, tpc, finished, task_results, timers, now, task_result>>
    /\ TaskFrame

\* the end of process_agent_worker and of _execute_single_task: after a
\* success the worker is set idle, after a failure a delayed_idle thread is
\* started; the unit returns and as_completed hands its future over
Finish(p, i) ==
    /\ units[p][i].st = "answered"
    /\ IF units[p][i].success
       THEN /\ mon_workers' = set_worker(mon_workers, i, "IDLE", "IDLE")
            /\ UNCHANGED timers
       ELSE /\ timers' = timers \cup {i}
            /\ UNCHANGED mon_workers
    /\ units' = [units EXCEPT ![p][i].st = "returned", ![p][i].file = NoPrompt,
                              ![p][i].read = "none"]
    /\ finished' = Append(finished, i)
    /\ UNCHANGED <<stats, display, tpc, task_results, prompt_dir, now, task_result>>
    /\ TaskFrame

\* delayed_idle: the sleep of two seconds is over, set_worker_idle(worker_id)
TimerFires(i) ==
    /\ i \in timers
    /\ timers' = timers \ {i}
    /\ mon_workers' = set_worker(mon_workers, i, "IDLE", "IDLE")
    /\ UNCHANGED <<stats, display, tpc, units, finished, task_results, prompt_dir,
                   now, task_result>>
    /\ TaskFrame

\* the clock reaches the next second
Tick ==
    /\ now < MaxSecond
    /\ tpc \notin {"done", "returned"}
    /\ now' = now + 1
    /\ UNCHANGED <<stats, display, mon_workers, tpc, units, finished, task_results,
                   timers, prompt_dir, task_result>>
    /\ TaskFrame

\* the analyzer has returned: "if not self._phase_1_task_analysis(): return
\* False", the second query, and the submission of phase 2
AnalysisDone ==
    /\ tpc = "analyze"
    /\ phase_done(units["analyze"])
    /\ LET tasks_to_process == Take(get_workable_phases(docs), max_tasks)
       IN IF ~ units["analyze"][1].success
          THEN /\ task_result' = "false"
               /\ tpc' = "done"
               /\ UNCHANGED units
          ELSE IF tasks_to_process = <<>>
          THEN /\ task_result' = "true"
               /\ tpc' = "done"
               /\ UNCHANGED units
          ELSE /\ units' = [units EXCEPT !["execute"] =
                              [i \in Slots |->
                                  IF i <= Len(tasks_to_process)
                                  THEN Submit(tasks_to_process[i].id)
                                  ELSE NoUnit]]
               /\ tpc' = "execute"
               /\ UNCHANGED task_result
    /\ finished' = <<>>
    /\ UNCHANGED <<stats, display, mon_workers, task_results, timers, prompt_dir,
                   now>>
    /\ TaskFrame

\* the pool of phase 2 is left: task_results in the order of completion, and
\* phase 3 numbers a validator for every task that succeeded
ExecuteDone ==
    /\ tpc = "execute"
    /\ phase_done(units["execute"])
    /\ LET results ==
               [k \in 1..Len(finished) |->
                   LET u == units["execute"][finished[k]]
                   IN [task |-> u.task, success |-> u.success,
                       validation |-> IF u.success THEN "PENDING" ELSE "FAIL"]]
           Succeeded(r) == r.success
           validation_tasks == SelectSeq(results, Succeeded)
       IN /\ task_results' = results
          /\ units' = [units EXCEPT !["validate"] =
                         [i \in Slots |->
                             IF i <= Len(validation_tasks)
                             THEN Submit(validation_tasks[i].task)
                             ELSE NoUnit]]
    /\ finished' = <<>>
    /\ tpc' = "validate"
    /\ UNCHANGED <<stats, display, mon_workers, timers, prompt_dir, now, task_result>>
    /\ TaskFrame

\* the pool of phase 3 is left: every PENDING entry takes its validator's
\* verdict, and phase 4 numbers an updater for every entry
ValidateDone ==
    /\ tpc = "validate"
    /\ phase_done(units["validate"])
    /\ LET VerdictOf(task) ==
               LET mine == {i \in Slots : /\ units["validate"][i].st = "returned"
                                         /\ units["validate"][i].task = task}
               IN IF mine = {} THEN "PENDING"
                  ELSE units["validate"][CHOOSE i \in mine : TRUE].verdict
           results ==
               [k \in DOMAIN task_results |->
                   [task_results[k] EXCEPT !.validation =
                       IF @ = "PENDING" THEN VerdictOf(task_results[k].task) ELSE @]]
       IN /\ task_results' = results
          /\ units' = [units EXCEPT !["status"] =
                         [i \in Slots |->
                             IF i <= Len(results) THEN Submit(results[i].task)
                             ELSE NoUnit]]
    /\ finished' = <<>>
    /\ tpc' = "status"
    /\ UNCHANGED <<stats, display, mon_workers, timers, prompt_dir, now, task_result>>
    /\ TaskFrame

\* the pool of phase 4 is left: the summary, and the return value
StatusDone ==
    /\ tpc = "status"
    /\ phase_done(units["status"])
    /\ task_result' = IF stats.failed_items = 0 THEN "true" ELSE "false"
    /\ tpc' = "done"
    /\ finished' = <<>>
    /\ UNCHANGED <<stats, display, mon_workers, units, task_results, timers,
                   prompt_dir, now>>
    /\ TaskFrame

\* "finally: self.worker_monitor.stop_display()"
TaskStopDisplay ==
    /\ tpc = "done"
    /\ tpc' = "returned"
    /\ display' = IF display = "running" THEN "stopping" ELSE display
    /\ UNCHANGED <<stats, mon_workers, units, finished, task_results, timers,
                   prompt_dir, now, task_result>>
    /\ TaskFrame

TaskNext ==
    \/ StartRun
    \/ \E p \in PhaseNames, i \in Slots : TemplateFails(p, i)
    \/ \E p \in PhaseNames, i \in Slots : MarkActive(p, i)
    \/ \E p \in PhaseNames, i \in Slots : CreatePrompt(p, i)
    \/ \E p \in PhaseNames, i \in Slots : PromptFileFails(p, i)
    \/ \E p \in PhaseNames, i \in Slots : SubprocessReads(p, i)
    \/ \E p \in PhaseNames, i \in Slots, ok \in BOOLEAN,
          verdict \in {"PASS", "PARTIAL", "FAIL"} : Answer(p, i, ok, verdict)
    \/ \E p \in PhaseNames, i \in Slots : Finish(p, i)
    \/ \E i \in Slots : TimerFires(i)
    \/ Tick
    \/ AnalysisDone
    \/ ExecuteDone
    \/ ValidateDone
    \/ StatusDone
    \/ TaskStopDisplay
    \/ DisplayExits

TaskSpec == TaskInit /\ [][TaskNext]_vars

----------------------------------------------------------------------------
(* Claims about the read side of PhaseManager, checked under Spec *)

\* C21: are_dependencies_completed is true for the empty list and false for
\* every list that holds an id whose get_phase_status is not completed, an id
\* that is in no document included.
C21_DependenciesFailClosed ==
    lastOp.op = "are_dependencies_completed" =>
        /\ lastOp.list = <<>> => lastOp.ok
        /\ (\E i \in DOMAIN lastOp.list :
               get_phase_status(docs, lastOp.list[i]) # "completed") => ~ lastOp.ok
        /\ (\E i \in DOMAIN lastOp.list :
               /\ ~ Exists(docs, lastOp.list[i])
               /\ AggregateEntries(docs, lastOp.list[i]) = {}) => ~ lastOp.ok

\* node 1 is completed, the other dependency is in no document, and the
\* answer is false
C21_Witness ==
    /\ lastOp.op = "are_dependencies_completed"
    /\ lastOp.list = <<<<1>>, GhostId>>
    /\ get_phase_status(docs, <<1>>) = "completed"
    /\ ~ lastOp.ok

\* id a comes before id b: segment by segment, a prefix first
RECURSIVE IdBefore(_, _)
IdBefore(a, b) ==
    IF a = <<>> THEN b # <<>>
    ELSE IF b = <<>> THEN FALSE
    ELSE IF Head(a) # Head(b) THEN Head(a) < Head(b)
    ELSE IdBefore(Tail(a), Tail(b))

\* C24: the result of get_workable_phases is ordered by priority value
\* ascending, and entries of equal priority by id ascending.
C24_OrderedByPriorityThenId ==
    lastOp.op = "get_workable_phases" =>
        \A i \in DOMAIN lastOp.list : \A j \in DOMAIN lastOp.list :
            i < j =>
                \/ lastOp.list[i].priority < lastOp.list[j].priority
                \/ /\ lastOp.list[i].priority = lastOp.list[j].priority
                   /\ ~ IdBefore(lastOp.list[j].id, lastOp.list[i].id)

\* the duration is over the limit of 60 minutes
OverLimit(duration) ==
    \/ Len(duration) = 1 /\ duration[1] > 60
    \/ Len(duration) = 2 /\ Max2(duration[1], duration[2]) > 60

\* what find_phases_needing_breakdown is asked to report: the entries of the
\* phases list of a document that are over the limit and have no document of
\* their own
Qualifying(d) ==
    UNION {{[file |-> n, phase_id |-> d[n].phases[i].id,
             duration |-> d[n].phases[i].duration] :
                i \in {j \in DOMAIN d[n].phases :
                          /\ OverLimit(d[n].phases[j].duration)
                          /\ ~ Exists(d, d[n].phases[j].id)}} :
           n \in {x \in DOMAIN d : Exists(d, x)}}

Reported(list) ==
    {[file |-> list[i].file, phase_id |-> list[i].phase_id,
      duration |-> list[i].duration] : i \in DOMAIN list}

\* C29: find_phases_needing_breakdown(limit), when it returns, returns at most
\* limit entries, in non-increasing order of duration, each a qualifying entry
\* of the store, and no qualifying entry left out is longer than one returned.
C29_LargestFirstWithinLimit ==
    (lastOp.op = "find_phases_needing_breakdown" /\ ~ lastOp.raised) =>
        LET l == lastOp.list
        IN /\ Len(l) <= lastOp.limit
           /\ \A i \in DOMAIN l : \A j \in DOMAIN l :
                  i < j => l[i].duration[1] >= l[j].duration[1]
           /\ Cardinality(Reported(l)) = Len(l)
           /\ Reported(l) \subseteq Qualifying(docs)
           /\ \A q \in Qualifying(docs) \ Reported(l) :
                  /\ Len(l) = lastOp.limit
                  /\ \A i \in DOMAIN l : l[i].duration[1] >= q.duration[1]

\* three entries of 90, 120 and 75 minutes qualify and limit 1 returns the
\* one of 120
C29_Witness ==
    /\ lastOp.op = "find_phases_needing_breakdown"
    /\ lastOp.limit = 1
    /\ Cardinality(Qualifying(docs)) = 3
    /\ Len(lastOp.list) = 1
    /\ lastOp.list[1].duration = Single(120)

\* C30: find_phases_needing_breakdown returns normally, and with a limit that
\* cuts nothing off its result has every entry without a document of its own
\* whose duration is a range with a bound above 60.
C30_RangeDurationsAreReported ==
    lastOp.op = "find_phases_needing_breakdown" =>
        /\ ~ lastOp.raised
        /\ lastOp.limit >= Cardinality(Qualifying(docs)) =>
               \A q \in Qualifying(docs) :
                   Len(q.duration) = 2 => q \in Reported(lastOp.list)

\* C31: the result of get_all_plan_files holds the documents of the nodes
\* only: phases.json is never in it.
C31_AggregateIsNotAPlanFile ==
    lastOp.op = "get_all_plan_files" =>
        /\ \A i \in DOMAIN lastOp.list : lastOp.list[i] # PhasesName
        /\ {lastOp.list[i] : i \in DOMAIN lastOp.list} =
               {n \in NodeIds : Exists(docs, n)}

\* C32: update_all_status returns the number of documents of the directory
\* it updated, phases.json counted once and each document of a node once:
\* 1 for a directory that holds phases.json alone.
C32_CountsEachDocumentOnce ==
    (lastOp.op = "update_all_status" /\ lastOp.status \in valid_statuses) =>
        /\ lastOp.count <= Cardinality({n \in DOMAIN prevDocs : Exists(prevDocs, n)})
        /\ ({n \in DOMAIN prevDocs : Exists(prevDocs, n)} = {PhasesName}
               /\ prevDocs[PhasesName].phases # <<>>) => lastOp.count = 1

-----------------------------------------------------------------------------
(* Claims about the functions that read no document, checked under PureSpec *)

\* C22: needs_breakdown(d) is true exactly when d is a single value above 60
\* or a range whose larger bound is above 60, and false for an absent or zero
\* duration; 60 and 30-60 give false.
C22_NeedsBreakdownAboveSixty ==
    (Answered /\ lastOp.op = "needs_breakdown") =>
        LET d == lastOp.list
        IN /\ Len(d) = 0 => ~ lastOp.ok
           /\ Len(d) = 1 => (lastOp.ok <=> d[1] > 60)
           /\ Len(d) = 2 => (lastOp.ok <=> Max2(d[1], d[2]) > 60)
           /\ d \in {Single(0), Single(60), Range(30, 60)} => ~ lastOp.ok

\* the range 30-60 was asked about and the answer is false
C22_Witness ==
    /\ Answered
    /\ lastOp.op = "needs_breakdown"
    /\ lastOp.list = Range(30, 60)
    /\ ~ lastOp.ok

\* other is name followed by a dot and one more segment
IsDirectChildName(other, name) ==
    /\ Len(other) > Len(name) + 1
    /\ SubSeq(other, 1, Len(name)) = name
    /\ other[Len(name) + 1] = "."
    /\ \A i \in (Len(name) + 2)..Len(other) : other[i] # "."

\* C23: is_leaf_phase of a node is false exactly when another name of the
\* listing is the node's id followed by exactly one more dotted segment; a
\* grandchild alone or a name that only shares a textual prefix leaves it a leaf.
C23_LeafIffNoDirectChild ==
    (Answered /\ lastOp.op = "is_leaf_phase" /\ lastOp.id # PhasesText) =>
        (~ lastOp.ok <=>
            \E other \in lastOp.files \ {lastOp.id} :
                IsDirectChildName(other, lastOp.id))

\* node 1 is listed with a grandchild 1.1.1 and the names 10 and 11.1, and is
\* a leaf
C23_Witness ==
    /\ Answered
    /\ lastOp.op = "is_leaf_phase"
    /\ lastOp.id = <<"1">>
    /\ lastOp.files = {<<"1">>, <<"1", ".", "1", ".", "1">>, <<"1", "0">>,
                       <<"1", "1", ".", "1">>}
    /\ lastOp.ok

\* C25: overall_score is 80 * (passed_checks / 5) - min(20, 5 * total issue
\* count), floored at 0, with the passed checks and the issues counted over
\* all five checks.
C25_ScoreOverFiveChecks ==
    (Answered /\ lastOp.op = "validate_breakdown_alignment") =>
        LET validation == validate_breakdown_alignment(lastOp.input).checks
            passed_checks == Cardinality({k \in CheckNames : validation[k].passed})
            total_issues ==
                SumOver([k \in CheckNames |-> validation[k].issues], CheckNames)
        IN lastOp.count =
               Max2(0, (80 * passed_checks) \div 5 - Min2(20, 5 * total_issues))

\* C26: when all five checks pass, giving any one check an input that makes
\* it fail lowers overall_score by at least 5.
C26_FailingCheckLowersScore ==
    (Answered /\ lastOp.op = "validate_breakdown_alignment" /\ lastOp.ok) =>
        \A k \in CheckNames : \A x \in CheckInputs(k) :
            LET changed == [lastOp.input EXCEPT ![k] = x]
            IN (changed \in ValidationInputs /\ ~ RunCheck(k, x).passed) =>
                   validate_breakdown_alignment(changed).overall_score
                       <= lastOp.count - 5

\* C33: the recommendations hold every issue string of every one of the five
\* checks, those of the checks that passed included, and are the positive
\* message exactly when no check reported an issue.
C33_RecommendationsHoldEveryIssue ==
    (Answered /\ lastOp.op = "validate_breakdown_alignment") =>
        LET v == validate_breakdown_alignment(lastOp.input)
        IN /\ \A k \in CheckNames : v.recommendations.taken[k] = v.checks[k].issues
           /\ v.recommendations.positive <=>
                  \A k \in CheckNames : v.checks[k].issues = 0

-----------------------------------------------------------------------------
(* Claims about WorkerMonitor, checked under MonitorSpec *)

RECURSIVE SumCounts(_, _)
SumCounts(summary, states) ==
    IF states = {} THEN 0
    ELSE LET s == CHOOSE x \in states : TRUE
         IN summary[s] + SumCounts(summary, states \ {s})

\* C27: whatever the interleaving of update_worker and the setters, the
\* registry holds exactly the slots 1..max_workers, each in one of the four
\* states, the counts of a get_summary add up to max_workers, and a call that
\* names a worker id outside 1..max_workers returns without changing a slot.
C27_RegistryKeepsItsSlots ==
    /\ [](/\ DOMAIN mon_workers = 1..max_workers
          /\ \A i \in DOMAIN mon_workers : mon_workers[i].state \in WorkerStates
          /\ reader.summed =>
                 /\ DOMAIN reader.summary = WorkerStates
                 /\ SumCounts(reader.summary, WorkerStates) = max_workers)
    /\ [][\A t \in MonThreads :
            (calls[t].pc = "idle" /\ calls'[t] # calls[t]
                /\ calls'[t].worker_id \notin 1..max_workers) =>
                    /\ calls'[t].pc = "idle"
                    /\ mon_workers' = mon_workers]_vars

\* a call for worker 3 has returned, worker 1 is in error, worker 2 is
\* active, and get_summary has counted one of each
C27_Witness ==
    /\ max_workers = 2
    /\ \E t \in MonThreads : calls[t] = [NoCall EXCEPT !.worker_id = 3]
    /\ mon_workers[1].state = "ERROR"
    /\ mon_workers[2].state = "ACTIVE"
    /\ reader.summed
    /\ reader.summary["ERROR"] = 1
    /\ reader.summary["ACTIVE"] = 1

\* thread t is inside the with block of update_worker
InUpdate(t) == calls[t].pc \in {"status", "state", "release"}

\* C28: a slot changes only in a step of the thread that holds the lock, two
\* threads are never inside the lock together, and the status and state a
\* reader takes from a slot are the pair one update_worker call passed.
C28_SlotsChangeUnderTheLock ==
    /\ [](/\ \A t \in MonThreads : InUpdate(t) => mon_lock = t
          /\ reader.pc \in {"d_status", "d_state", "d_print", "s_count"} =>
                 mon_lock = "reader"
          /\ reader.pc = "d_print" =>
                 [status |-> reader.status, state |-> reader.state] \in WrittenPairs)
    /\ [][mon_workers' # mon_workers =>
            \E t \in MonThreads : InUpdate(t) /\ mon_lock = t]_vars

\* the reader has taken the completed pair from slot 1 while a thread that
\* wants to write the error pair to slot 1 waits for the lock
C28_Witness ==
    /\ reader.pc = "d_print"
    /\ reader.worker_id = 1
    /\ reader.status = CompletedText
    /\ reader.state = "COMPLETED"
    /\ \E t \in MonThreads :
          /\ calls[t].pc = "acquire"
          /\ calls[t].worker_id = 1
          /\ calls[t].state = "ERROR"

-----------------------------------------------------------------------------
(* Claims about load_json and build_strategic_context, checked under RepairSpec *)

\* the read in progress found a malformed document
ReadOfMalformed == load.pc # "idle" /\ ~ Parses(load.orig)

\* C34: a read of a malformed document asks the invoker at most once and
\* returns a document also when the invoker raises; the backup holds the
\* original before the invoker is asked; the document changes only in the
\* write that follows exit code 0 and a response that parses; every other
\* read returns the empty document and leaves the original text in the file
\* and in the backup.
C34_RepairIsGuardedAndBackedUp ==
    /\ [](/\ load.invoked <= 1
          /\ load.pc \in {"invoke", "validate", "write"} => disk.backup = load.orig
          /\ (ReadOfMalformed /\ load.pc = "returned") =>
                 IF ~ load.caught /\ load.exit_code = 0 /\ Parses(load.response)
                 THEN load.result = load.response /\ disk.file = load.response
                 ELSE /\ load.result = "empty"
                      /\ disk.file = load.orig
                      /\ disk.backup = load.orig)
    /\ [][(disk.file' # disk.file /\ load.pc # "idle" /\ load'.pc # "idle") =>
            /\ load.pc = "write"
            /\ load.exit_code = 0
            /\ Parses(load.response)
            /\ disk.backup = load.orig]_vars

\* a read of a malformed document got exit code 1 with a response that
\* parses, and returned the empty document with file and backup as they were
C34_Witness ==
    /\ load.pc = "returned"
    /\ load.caller = "load_json"
    /\ load.orig = "BadA"
    /\ load.invoked = 1
    /\ load.exit_code = 1
    /\ load.response = "DocB"
    /\ load.result = "empty"
    /\ disk = [file |-> "BadA", backup |-> "BadA"]

\* C35: build_strategic_context leaves the document and the files beside it
\* as they were when it was called, a malformed document included.
C35_ContextLeavesFilesUnchanged ==
    load.caller = "build_strategic_context" => disk = load.start

----------------------------------------------------------------------------
(* Claims about the statistics and the batches of run_loop, checked under
   LoopSpec *)

\* a thread is between the first load and the last store of update_success
UpdateInProgress ==
    \/ pc \in {"m_store", "m_load", "m_cstore"}
    \/ \E i \in Slots : wk[i].st \in {"s_store", "c_load", "c_store"}

\* every worker of the batch has returned with a response that was valid, so
\* each has made the update_success call of call_agent
AllSucceeded == \A i \in 1..Len(batch) : wk[i].st = "returned" /\ wk[i].success

\* the update_success calls that have returned by then: one of each worker, and
\* one of run_loop for each future collected
CallsMade == Len(batch) + Cardinality({i \in Slots : wk[i].collected})

\* C38: in the first batch, when every invocation has succeeded and no
\* update_success call is in progress, total_items equals successful_items +
\* failed_items and equals the number of update_success calls made.
C38_NoUpdateIsLost ==
    (pc = "collect" /\ batches = 1 /\ AllSucceeded /\ ~ UpdateInProgress) =>
        /\ stats.total_items = stats.successful_items + stats.failed_items
        /\ stats.total_items = CallsMade

\* C40: when run_loop has used up max_iterations iterations, and these were
\* enough to submit every node that needed breakdown at the start once, every
\* node that still needs breakdown has been submitted at least once.
C40_EveryNeedingNodeIsDispatched ==
    (/\ pc = "done"
     /\ result = "exhausted"
     /\ max_iterations * max_workers >= Cardinality(NeedingIds(prevDocs)))
    => NeedingIds(docs) \subseteq dispatched_ids

----------------------------------------------------------------------------
(* Claims about run_task_execution and the workers of AgentManager, checked
   under TaskSpec *)

Started(p) == \E i \in Slots : units[p][i].st # "none"
AllFinished(p) == \A i \in Slots : units[p][i].st \in {"none", "returned"}

\* C36: a unit of a phase exists only when every unit of every earlier phase
\* has returned, in the order analyze, execute, validate, status; and when
\* the analysis has failed no unit of a later phase is ever submitted.
C36_PhasesRunInOrder ==
    /\ \A a, b \in DOMAIN PhaseOrder :
          (a < b /\ Started(PhaseOrder[b])) => AllFinished(PhaseOrder[a])
    /\ (units["analyze"][1].st = "returned" /\ ~ units["analyze"][1].success)
          => \A b \in 2..Len(PhaseOrder) : ~ Started(PhaseOrder[b])
    /\ Started("execute") => units["analyze"][1].success

C36_Witness ==
    /\ tpc = "status"
    /\ units["status"][2].st = "invoked"
    /\ units["status"][1].st = "returned"
    /\ units["validate"][1].st = "returned"
    /\ units["validate"][2].st = "none"
    /\ units["execute"][1].st = "returned"
    /\ units["execute"][2].st = "returned"
    /\ ~ units["execute"][1].success
    /\ units["execute"][2].success

\* the prompt file of a unit is written and its subprocess has not ended
InUse(u) == u.st \in {"created", "invoked"}

\* C37: two units whose prompt files are in use at the same time have files
\* of different names, the file a unit has written holds its own prompt until
\* its subprocess has opened it, and every subprocess reads the prompt
\* written for its own unit.
C37_PromptFilesAreNotShared ==
    \A p \in PhaseNames, i \in Slots :
        /\ \A j \in Slots \ {i} :
              (InUse(units[p][i]) /\ InUse(units[p][j]))
              => units[p][i].file # units[p][j].file
        /\ units[p][i].st = "created"
              => [name |-> units[p][i].file, content |-> units[p][i].task]
                    \in prompt_dir
        /\ units[p][i].read \in {"none", "own"}

\* C39: while a unit is between its first update to ACTIVE and the end of
\* its invocation, the slot of its worker_id is not IDLE.
C39_SlotIsNotResetWhileRunning ==
    \A p \in PhaseNames, i \in DOMAIN mon_workers :
        units[p][i].st \in {"active", "created", "invoked"}
        => mon_workers[i].state # "IDLE"

====
